---- MODULE Spec2Model ----
(***************************************************************************)
(* A model of the Forge interpreter (boobser1488/Rforge): the value world  *)
(* of value.rs, the scopes of env.rs, the builtins of builtins.rs and the  *)
(* tree-walking evaluator of eval.rs, driven by run_script of main.rs.     *)
(*                                                                         *)
(* Representation.                                                         *)
(*  - A Value is a record tagged by t.  Rc<RefCell<..>> referents (arrays, *)
(*    class and instance field maps) live in two stores of the evaluator   *)
(*    state, st.arrays and st.maps; a Value holds the address (the index   *)
(*    in the store), so that cloning a Value clones the reference.         *)
(*  - Option<T> is a sequence of length 0 (None) or 1 (Some).              *)
(*  - A HashMap is a function whose DOMAIN is the key set.                 *)
(*  - A String is a TLA+ string, one character of it for each char of the  *)
(*    Rust string; a character is a string of length 1.  The text of a     *)
(*    module is ASCII, so the character written ~ stands for U+00E9, whose *)
(*    UTF-8 encoding has two bytes; every other character has one byte.    *)
(*    Standard output is the string written so far.                        *)
(*  - A Number (f64) is a rational num/den in lowest terms, den > 0; NaN   *)
(*    is 0/0.                                                              *)
(*  - Result<Value,String> is [k |-> "ok", st, val] or [k |-> "err", st,   *)
(*    msg]; Result<Option<Value>,String> is k = "none", "some" or "err".   *)
(*    k = "fuel" marks a run cut off by the model's step bound MaxSteps.   *)
(***************************************************************************)
EXTENDS Integers, Sequences, FiniteSets, TLC

(***************************************************************************)
(* Bounds of the model.                                                    *)
(***************************************************************************)
MaxSteps == 60

\* The longest sequence of push, pop and set applied to an aliased array.
MaxOps == 2

\* The deepest chain of calls between a try body and the failing statement.
MaxCalls == 2

\* The most arguments of a method call.
MaxArgs == 2

\* The longest array a for-in loop walks.
MaxLen == 3

(***************************************************************************)
(* Generic helpers.                                                        *)
(***************************************************************************)
None == <<>>

Some(v) == <<v>>

EmptyMap == <<>>

Put(m, key, v) == [x \in (DOMAIN m) \cup {key} |-> IF x = key THEN v ELSE m[x]]

Lookup(m, key) == IF key \in DOMAIN m THEN Some(m[key]) ELSE None

Abs(n) == IF n < 0 THEN -n ELSE n

RECURSIVE Gcd(_, _)
Gcd(a, b) == IF b = 0 THEN a ELSE Gcd(b, a % b)

(***************************************************************************)
(* value.rs: enum Value.                                                   *)
(***************************************************************************)
Ratio(p, q) ==
    LET g == Gcd(Abs(p), Abs(q))
        s == IF q < 0 THEN -1 ELSE 1
    IN  [t |-> "Number", num |-> (s * p) \div g, den |-> (s * q) \div g]

Number(n) == [t |-> "Number", num |-> n, den |-> 1]

NaN == [t |-> "Number", num |-> 0, den |-> 0]

String(s) == [t |-> "String", s |-> s]

Boolean(b) == [t |-> "Boolean", b |-> b]

Null == [t |-> "Null"]

Array(addr) == [t |-> "Array", a |-> addr]

Class(name, parent, fields, methods) ==
    [t |-> "Class", name |-> name, parent |-> parent, fields |-> fields,
     methods |-> methods]

Instance(class, fields) == [t |-> "Instance", class |-> class, ifields |-> fields]

Method(func, recv) == [t |-> "Method", func |-> func, recv |-> recv]

\* char::len_utf8: the number of bytes of the character c in a Rust string.
len_utf8(c) == IF c = "~" THEN 2 ELSE 1

\* str::len: the length of the string in bytes.
RECURSIVE str_len(_)
str_len(s) ==
    IF Len(s) = 0 THEN 0 ELSE len_utf8(SubSeq(s, 1, 1)) + str_len(SubSeq(s, 2, Len(s)))

IsNaN(v) == v.den = 0

IsInt(v) == v.den = 1

\* `n as usize` / `n as i64`: truncation toward zero; the cast to usize
\* saturates negative numbers (and NaN) to 0.
Trunc(v) ==
    IF v.den = 0 THEN 0
    ELSE IF v.num >= 0 THEN v.num \div v.den ELSE -((-v.num) \div v.den)

as_i64(v) == Trunc(v)

as_usize(v) == IF Trunc(v) < 0 THEN 0 ELSE Trunc(v)

\* An equality that takes two instances of one class for equal.
ValueEq_same_class(x, y) ==
    IF x.t # y.t THEN FALSE
    ELSE CASE x.t = "Number" -> ~IsNaN(x) /\ ~IsNaN(y) /\ x.num = y.num /\ x.den = y.den
           [] x.t = "String" -> x.s = y.s
           [] x.t = "Boolean" -> x.b = y.b
           [] x.t = "Array" -> x.a = y.a
           [] x.t = "Null" -> TRUE
           [] x.t = "Class" -> x.name = y.name
           [] x.t = "Instance" -> x.class.name = y.class.name
           [] x.t = "Method" -> x.func = y.func /\ x.recv = y.recv
           [] OTHER -> FALSE

\* impl PartialEq for Value.  Rc::ptr_eq on an instance is the identity of its
\* field map; a Method's receiver handle is compared by value here.
ValueEq(x, y) ==
    IF x.t # y.t THEN FALSE
    ELSE CASE x.t = "Number" -> ~IsNaN(x) /\ ~IsNaN(y) /\ x.num = y.num /\ x.den = y.den
           [] x.t = "String" -> x.s = y.s
           [] x.t = "Boolean" -> x.b = y.b
           [] x.t = "Array" -> x.a = y.a
           [] x.t = "Null" -> TRUE
           [] x.t = "Class" -> x.name = y.name
           [] x.t = "Instance" -> x.ifields = y.ifields
           [] x.t = "Method" -> x.func = y.func /\ x.recv = y.recv
           [] OTHER -> FALSE

\* Value::as_bool
as_bool(v, st) ==
    CASE v.t = "Boolean" -> v.b
      [] v.t = "Number" -> IsNaN(v) \/ v.num # 0
      [] v.t = "String" -> v.s # ""
      [] v.t = "Array" -> st.arrays[v.a] # <<>>
      [] v.t = "Null" -> FALSE
      [] OTHER -> TRUE

\* Value::type_name
type_name(v) ==
    CASE v.t = "Number" -> "number"
      [] v.t = "String" -> "string"
      [] v.t = "Boolean" -> "boolean"
      [] v.t = "Array" -> "array"
      [] v.t = "Null" -> "null"
      [] v.t = "Class" -> "class"
      [] v.t = "Instance" -> "instance"
      [] v.t = "Method" -> "method"
      [] OTHER -> "dll"

\* An attribute lookup that goes on in the parent of the class of an instance.
get_attr_inherited(v, attr, st) ==
    CASE v.t = "Instance" ->
           IF attr \in DOMAIN st.maps[v.ifields] THEN Some(st.maps[v.ifields][attr])
           ELSE IF attr \in DOMAIN st.maps[v.class.fields]
                THEN Some(st.maps[v.class.fields][attr])
           ELSE IF attr \in DOMAIN v.class.methods
                THEN Some(Method(v.class.methods[attr], v.class))
           ELSE IF v.class.parent = None THEN None
           ELSE IF attr \in DOMAIN st.maps[v.class.parent[1].fields]
                THEN Some(st.maps[v.class.parent[1].fields][attr])
           ELSE IF attr \in DOMAIN v.class.parent[1].methods
                THEN Some(Method(v.class.parent[1].methods[attr], v.class))
           ELSE None
      [] v.t = "Class" ->
           IF attr \in DOMAIN st.maps[v.fields] THEN Some(st.maps[v.fields][attr])
           ELSE IF attr \in DOMAIN v.methods THEN Some(Method(v.methods[attr], v))
           ELSE None
      [] OTHER -> None

\* Value::get_attr
get_attr(v, attr, st) ==
    CASE v.t = "Instance" ->
           IF attr \in DOMAIN st.maps[v.ifields] THEN Some(st.maps[v.ifields][attr])
           ELSE IF attr \in DOMAIN st.maps[v.class.fields]
                THEN Some(st.maps[v.class.fields][attr])
           ELSE IF attr \in DOMAIN v.class.methods
                THEN Some(Method(v.class.methods[attr], v.class))
           ELSE None
      [] v.t = "Class" ->
           IF attr \in DOMAIN st.maps[v.fields] THEN Some(st.maps[v.fields][attr])
           ELSE IF attr \in DOMAIN v.methods THEN Some(Method(v.methods[attr], v))
           ELSE None
      [] OTHER -> None

\* Value::set_attr: the state with the attribute stored, or an error.
set_attr(v, attr, value, st) ==
    CASE v.t = "Instance" ->
           [k |-> "ok", val |-> Null,
            st |-> [st EXCEPT !.maps[v.ifields] = Put(@, attr, value)]]
      [] v.t = "Class" ->
           [k |-> "ok", val |-> Null,
            st |-> [st EXCEPT !.maps[v.fields] = Put(@, attr, value)]]
      [] OTHER -> [k |-> "err", st |-> st, msg |-> "Cannot set attribute on this value"]

(***************************************************************************)
(* impl fmt::Display for Value.  A number with an integral value prints as *)
(* its decimal digits; a fraction prints its integer part, a point and the *)
(* digits of the long division (at most 16 of them).                       *)
(***************************************************************************)
DigitChar(d) == <<"0", "1", "2", "3", "4", "5", "6", "7", "8", "9">>[d + 1]

RECURSIVE NatDigits(_)
NatDigits(n) == IF n < 10 THEN DigitChar(n) ELSE NatDigits(n \div 10) \o DigitChar(n % 10)

RECURSIVE FracPart(_, _, _)
FracPart(r, den, left) ==
    IF r = 0 \/ left = 0 THEN ""
    ELSE DigitChar((r * 10) \div den) \o FracPart((r * 10) % den, den, left - 1)

fmt_number(v) ==
    IF IsNaN(v) THEN "NaN"
    ELSE LET a == Abs(v.num)
             sign == IF v.num < 0 THEN "-" ELSE ""
         IN  IF v.den = 1 THEN sign \o NatDigits(a)
             ELSE sign \o NatDigits(a \div v.den) \o "." \o FracPart(a % v.den, v.den, 16)

RECURSIVE fmt(_, _)
RECURSIVE fmt_elems(_, _)
fmt_elems(elems, st) ==
    IF elems = <<>> THEN ""
    ELSE IF Len(elems) = 1 THEN fmt(elems[1], st)
    ELSE fmt(elems[1], st) \o ", " \o fmt_elems(Tail(elems), st)

fmt(v, st) ==
    CASE v.t = "Number" -> fmt_number(v)
      [] v.t = "String" -> v.s
      [] v.t = "Boolean" -> IF v.b THEN "true" ELSE "false"
      [] v.t = "Array" -> "[" \o fmt_elems(st.arrays[v.a], st) \o "]"
      [] v.t = "Null" -> "null"
      [] v.t = "Class" -> "<class " \o v.name \o ">"
      [] v.t = "Instance" -> "<instance of " \o v.class.name \o ">"
      [] OTHER -> "<method>"

(***************************************************************************)
(* env.rs: struct Env.  The byte memory (65,536 zero bytes at start) is    *)
(* kept as the map of the addresses written so far.  builtins maps a name  *)
(* to the native function installed under it.                              *)
(***************************************************************************)
UserFunction(name, params, body, is_async) ==
    [name |-> name, params |-> params, body |-> body, is_async |-> is_async]

\* Env::new
new_env ==
    [vars |-> EmptyMap, funcs |-> EmptyMap, builtins |-> EmptyMap,
     classes |-> EmptyMap, dll_cache |-> EmptyMap, parent |-> None,
     memory |-> EmptyMap, registers |-> EmptyMap]

\* The outermost scope of the chain of env.
RECURSIVE Outermost(_)
Outermost(env) == IF env.parent = None THEN env ELSE Outermost(env.parent[1])

\* A child scope that reads through to the outermost scope only.
child_of_outermost(env) ==
    [vars |-> EmptyMap, funcs |-> env.funcs, builtins |-> env.builtins,
     classes |-> env.classes, dll_cache |-> env.dll_cache, parent |-> Some(Outermost(env)),
     memory |-> env.memory, registers |-> env.registers]

\* Env::child
child(env) ==
    [vars |-> EmptyMap, funcs |-> env.funcs, builtins |-> env.builtins,
     classes |-> env.classes, dll_cache |-> env.dll_cache, parent |-> Some(env),
     memory |-> env.memory, registers |-> env.registers]

\* Env::get_var
RECURSIVE get_var(_, _)
get_var(env, name) ==
    IF name \in DOMAIN env.vars THEN Some(env.vars[name])
    ELSE IF env.parent # None THEN get_var(env.parent[1], name)
    ELSE None

\* Env::set_var
set_var(env, name, value) == [env EXCEPT !.vars = Put(@, name, value)]

\* Env::define_func
define_func(env, name, func) == [env EXCEPT !.funcs = Put(@, name, func)]

\* Env::get_func
RECURSIVE get_func(_, _)
get_func(env, name) ==
    IF name \in DOMAIN env.funcs THEN Some(env.funcs[name])
    ELSE IF env.parent # None THEN get_func(env.parent[1], name)
    ELSE None

\* Env::get_builtin
RECURSIVE get_builtin(_, _)
get_builtin(env, name) ==
    IF name \in DOMAIN env.builtins THEN Some(env.builtins[name])
    ELSE IF env.parent # None THEN get_builtin(env.parent[1], name)
    ELSE None

\* Env::add_builtin
add_builtin(env, name, f) == [env EXCEPT !.builtins = Put(@, name, f)]

\* Env::define_class
define_class(env, name, class_value) == [env EXCEPT !.classes = Put(@, name, class_value)]

\* Env::get_class
RECURSIVE get_class(_, _)
get_class(env, name) ==
    IF name \in DOMAIN env.classes THEN Some(env.classes[name])
    ELSE IF env.parent # None THEN get_class(env.parent[1], name)
    ELSE None

\* `memory: vec![0; 65536]`
MemorySize == 65536

\* Env::mem_read: the byte at addr, None out of bounds.
mem_read(env, addr) ==
    IF addr < MemorySize
    THEN Some(IF addr \in DOMAIN env.memory THEN env.memory[addr] ELSE 0)
    ELSE None

\* Env::mem_write: the environment with the byte stored, None out of bounds.
mem_write(env, addr, value) ==
    IF addr < MemorySize THEN Some([env EXCEPT !.memory = Put(@, addr, value)]) ELSE None

\* Env::get_reg
get_reg(env, name) ==
    IF name \in DOMAIN env.registers THEN Some(env.registers[name]) ELSE None

\* Env::set_reg
set_reg(env, name, value) == [env EXCEPT !.registers = Put(@, name, value)]

\* The names bound in env or in a scope of its parent chain.
RECURSIVE VisibleNames(_)
VisibleNames(env) ==
    (DOMAIN env.vars) \cup (IF env.parent # None THEN VisibleNames(env.parent[1]) ELSE {})

\* What every visible name reads as (get_var over the parent chain).
Bindings(env) == [n \in VisibleNames(env) |-> get_var(env, n)[1]]

(***************************************************************************)
(* The evaluator state: the current scope, the two stores of shared        *)
(* referents, standard output, and the number of steps taken.              *)
(***************************************************************************)
Ok(st, v) == [k |-> "ok", st |-> st, val |-> v]

Err(st, msg) == [k |-> "err", st |-> st, msg |-> msg]

NoValue(st) == [k |-> "none", st |-> st]

Returned(st, v) == [k |-> "some", st |-> st, val |-> v]

OutOfFuel(st) == [k |-> "fuel", st |-> st]

\* A panic: the thread unwinds through every caller, try/catch included, and
\* the process aborts.
Panic(st, msg) == [k |-> "panic", st |-> st, msg |-> msg]

\* Rc::new(RefCell::new(vec)): a new array referent.
new_array(st, elems) ==
    Ok([st EXCEPT !.arrays = Append(@, elems)], Array(Len(st.arrays) + 1))

(***************************************************************************)
(* builtins.rs.                                                            *)
(***************************************************************************)
\* array_fn
array_fn(args, st) == new_array(st, args)

\* push_fn
push_fn(args, st) ==
    IF Len(args) # 2 THEN Err(st, "push expects 2 arguments")
    ELSE IF args[1].t = "Array"
         THEN Ok([st EXCEPT !.arrays[args[1].a] = Append(@, args[2])],
                 Number(Len(st.arrays[args[1].a]) + 1))
    ELSE Err(st, "push: first argument must be array")

\* pop_fn
pop_fn(args, st) ==
    IF Len(args) # 1 THEN Err(st, "pop expects 1 argument")
    ELSE IF args[1].t = "Array"
         THEN LET arr == st.arrays[args[1].a]
              IN  IF arr = <<>> THEN Err(st, "pop from empty array")
                  ELSE Ok([st EXCEPT !.arrays[args[1].a] = SubSeq(arr, 1, Len(arr) - 1)],
                          arr[Len(arr)])
    ELSE Err(st, "pop: argument must be array")

\* length_fn (s.len() counts bytes)
length_fn(args, st) ==
    IF Len(args) # 1 THEN Err(st, "length expects 1 argument")
    ELSE CASE args[1].t = "Array" -> Ok(st, Number(Len(st.arrays[args[1].a])))
           [] args[1].t = "String" -> Ok(st, Number(str_len(args[1].s)))
           [] OTHER -> Err(st, "length: argument must be array or string")

\* get_fn
get_fn(args, st) ==
    IF Len(args) # 2 THEN Err(st, "get expects 2 arguments")
    ELSE IF args[1].t = "Array" /\ args[2].t = "Number"
         THEN LET arr == st.arrays[args[1].a]
                  idx == as_usize(args[2])
              IN  IF idx < Len(arr) THEN Ok(st, arr[idx + 1])
                  ELSE Err(st, "get: index out of bounds")
    ELSE Err(st, "get: first argument must be array, second must be number")

\* set_fn
set_fn(args, st) ==
    IF Len(args) # 3 THEN Err(st, "set expects 3 arguments")
    ELSE IF args[1].t = "Array" /\ args[2].t = "Number"
         THEN LET arr == st.arrays[args[1].a]
                  idx == as_usize(args[2])
              IN  IF idx < Len(arr)
                  THEN Ok([st EXCEPT !.arrays[args[1].a][idx + 1] = args[3]], Null)
                  ELSE Err(st, "set: index out of bounds")
    ELSE Err(st, "set: first argument must be array, second must be number")

\* slice_fn
slice_fn(args, st) ==
    IF Len(args) # 3 THEN Err(st, "slice expects 3 arguments")
    ELSE IF args[1].t = "Array" /\ args[2].t = "Number" /\ args[3].t = "Number"
         THEN LET arr == st.arrays[args[1].a]
                  s == as_usize(args[2])
                  e == as_usize(args[3])
              IN  IF s > e THEN Err(st, "slice: start index must be <= end index")
                  ELSE IF e > Len(arr) THEN Err(st, "slice: end index out of bounds")
                  ELSE new_array(st, SubSeq(arr, s + 1, e))
    ELSE Err(st, "slice: first argument must be array, start and end must be numbers")

\* `*n as u8`: truncation, saturating at 0 and 255.
as_u8(v) == IF Trunc(v) < 0 THEN 0 ELSE IF Trunc(v) > 255 THEN 255 ELSE Trunc(v)

\* mem_read_fn
mem_read_fn(args, st) ==
    IF Len(args) # 1 THEN Err(st, "mem_read expects 1 argument")
    ELSE IF args[1].t # "Number" THEN Err(st, "mem_read argument must be number")
    ELSE IF mem_read(st.env, as_usize(args[1])) = None
    THEN Err(st, "Memory access out of bounds")
    ELSE Ok(st, Number(mem_read(st.env, as_usize(args[1]))[1]))

\* mem_write_fn
mem_write_fn(args, st) ==
    IF Len(args) # 2 THEN Err(st, "mem_write expects 2 arguments")
    ELSE IF args[1].t # "Number" THEN Err(st, "mem_write first argument must be number")
    ELSE IF args[2].t # "Number" THEN Err(st, "mem_write second argument must be number")
    ELSE IF mem_write(st.env, as_usize(args[1]), as_u8(args[2])) = None
    THEN Err(st, "Memory access out of bounds")
    ELSE Ok([st EXCEPT !.env = mem_write(st.env, as_usize(args[1]), as_u8(args[2]))[1]], Null)

\* get_reg_fn
get_reg_fn(args, st) ==
    IF Len(args) # 1 THEN Err(st, "get_reg expects 1 argument")
    ELSE IF args[1].t # "String" THEN Err(st, "get_reg argument must be string")
    ELSE IF get_reg(st.env, args[1].s) = None
    THEN Err(st, "Register '" \o args[1].s \o "' not defined")
    ELSE Ok(st, Number(get_reg(st.env, args[1].s)[1]))

\* set_reg_fn
set_reg_fn(args, st) ==
    IF Len(args) # 2 THEN Err(st, "set_reg expects 2 arguments")
    ELSE IF args[1].t # "String" THEN Err(st, "set_reg first argument must be string")
    ELSE IF args[2].t # "Number" THEN Err(st, "set_reg second argument must be number")
    ELSE Ok([st EXCEPT !.env = set_reg(@, args[1].s, as_i64(args[2]))], Null)

\* The names install registers, each bound to the native function of that name.
\* `vec![0; size]`
RECURSIVE Zeros(_)
Zeros(size) == IF size = 0 THEN <<>> ELSE Append(Zeros(size - 1), 0)

\* A malloc that hands out the least handle that names no block.
malloc_fn_least_free(args, st) ==
    IF Len(args) # 1 THEN Err(st, "malloc expects 1 argument (size)")
    ELSE IF args[1].t # "Number" THEN Err(st, "malloc argument must be number")
    ELSE LET ptr == CHOOSE p \in 1..st.NEXT_PTR :
                        /\ p \notin DOMAIN st.HEAP
                        /\ \A q \in 1..(p - 1) : q \in DOMAIN st.HEAP
         IN  Ok([st EXCEPT !.HEAP = Put(@, ptr, Zeros(as_usize(args[1]))),
                           !.NEXT_PTR = @ + 1],
                Number(ptr))

\* malloc_fn: HEAP and NEXT_PTR are statics of the process, outside every Env.
malloc_fn(args, st) ==
    IF Len(args) # 1 THEN Err(st, "malloc expects 1 argument (size)")
    ELSE IF args[1].t # "Number" THEN Err(st, "malloc argument must be number")
    ELSE LET ptr == st.NEXT_PTR
         IN  Ok([st EXCEPT !.HEAP = Put(@, ptr, Zeros(as_usize(args[1]))),
                           !.NEXT_PTR = @ + 1],
                Number(ptr))

\* free_fn: `heap.remove(&ptr)`
free_fn(args, st) ==
    IF Len(args) # 1 THEN Err(st, "free expects 1 argument (ptr)")
    ELSE IF args[1].t # "Number" THEN Err(st, "free argument must be number")
    ELSE Ok([st EXCEPT !.HEAP = [p \in (DOMAIN @) \ {as_usize(args[1])} |-> @[p]]], Null)

\* poke_fn; block[offset] of the source is block[offset + 1] here.
poke_fn(args, st) ==
    IF Len(args) # 3 THEN Err(st, "poke expects 3 arguments: ptr, offset, value")
    ELSE IF args[1].t # "Number" THEN Err(st, "poke first argument must be number")
    ELSE IF args[2].t # "Number" THEN Err(st, "poke second argument must be number")
    ELSE IF args[3].t # "Number" THEN Err(st, "poke third argument must be number (byte)")
    ELSE IF as_usize(args[1]) \notin DOMAIN st.HEAP THEN Err(st, "Invalid pointer")
    ELSE IF as_usize(args[2]) >= Len(st.HEAP[as_usize(args[1])])
    THEN Err(st, "Offset out of bounds")
    ELSE Ok([st EXCEPT !.HEAP[as_usize(args[1])][as_usize(args[2]) + 1] = as_u8(args[3])],
            Null)

\* peek_fn
peek_fn(args, st) ==
    IF Len(args) # 2 THEN Err(st, "peek expects 2 arguments: ptr, offset")
    ELSE IF args[1].t # "Number" THEN Err(st, "peek first argument must be number")
    ELSE IF args[2].t # "Number" THEN Err(st, "peek second argument must be number")
    ELSE IF as_usize(args[1]) \notin DOMAIN st.HEAP THEN Err(st, "Invalid pointer")
    ELSE IF as_usize(args[2]) >= Len(st.HEAP[as_usize(args[1])])
    THEN Err(st, "Offset out of bounds")
    ELSE Ok(st, Number(st.HEAP[as_usize(args[1])][as_usize(args[2]) + 1]))

\* peek32_fn: the four bytes from offset on, least significant first.
peek32_fn(args, st) ==
    IF Len(args) # 2 THEN Err(st, "peek32 expects 2 arguments: ptr, offset")
    ELSE IF args[1].t # "Number" THEN Err(st, "peek32 first argument must be number")
    ELSE IF args[2].t # "Number" THEN Err(st, "peek32 second argument must be number")
    ELSE IF as_usize(args[1]) \notin DOMAIN st.HEAP THEN Err(st, "Invalid pointer")
    ELSE IF as_usize(args[2]) + 3 >= Len(st.HEAP[as_usize(args[1])])
    THEN Err(st, "Offset out of bounds for 4-byte read")
    ELSE LET block == st.HEAP[as_usize(args[1])]
             offset == as_usize(args[2])
         IN  Ok(st, Number(block[offset + 1] + block[offset + 2] * 256
                           + block[offset + 3] * 65536 + block[offset + 4] * 16777216))

BuiltinNames ==
    {"sleep", "array", "push", "pop", "exit", "length", "slice", "input", "write",
     "append", "read", "upper", "lower", "split", "join", "replace", "contains",
     "get", "set", "file_exists", "mem_read", "mem_write", "get_reg", "set_reg",
     "tonumber", "type", "dll_load", "dll_call", "dll_free", "malloc", "free",
     "poke", "peek", "peek32", "register_window_class"}

\* install
install(env) == [env EXCEPT !.builtins = [n \in BuiltinNames |-> n]]

\* builtin(arg_vals, env).await: the native functions the model covers.
call_builtin(f, args, st) ==
    CASE f = "array" -> array_fn(args, st)
      [] f = "push" -> push_fn(args, st)
      [] f = "pop" -> pop_fn(args, st)
      [] f = "length" -> length_fn(args, st)
      [] f = "get" -> get_fn(args, st)
      [] f = "set" -> set_fn(args, st)
      [] f = "slice" -> slice_fn(args, st)
      [] f = "mem_read" -> mem_read_fn(args, st)
      [] f = "mem_write" -> mem_write_fn(args, st)
      [] f = "get_reg" -> get_reg_fn(args, st)
      [] f = "set_reg" -> set_reg_fn(args, st)
      [] f = "malloc" -> malloc_fn(args, st)
      [] f = "free" -> free_fn(args, st)
      [] f = "poke" -> poke_fn(args, st)
      [] f = "peek" -> peek_fn(args, st)
      [] f = "peek32" -> peek32_fn(args, st)
      [] OTHER -> Err(st, "builtin outside the model")

(***************************************************************************)
(* ast.rs: enum Expr, enum Stmt.                                           *)
(***************************************************************************)
\* Expr::Number(f64): the literal num/den; ENumber(n) is the integer literal n.
ENum(num, den) == [k |-> "Number", num |-> num, den |-> den]

ENumber(n) == ENum(n, 1)

EString(s) == [k |-> "String", s |-> s]

EBoolean(b) == [k |-> "Boolean", b |-> b]

ENull == [k |-> "Null"]

EVariable(name) == [k |-> "Variable", name |-> name]

EBinaryOp(left, op, right) == [k |-> "BinaryOp", left |-> left, op |-> op, right |-> right]

EUnaryOp(op, expr) == [k |-> "UnaryOp", op |-> op, expr |-> expr]

ECall(name, args) == [k |-> "Call", name |-> name, args |-> args]

EIndex(array, index) == [k |-> "Index", array |-> array, index |-> index]

EGetAttr(object, attr) == [k |-> "GetAttr", object |-> object, attr |-> attr]

ESetAttr(object, attr, value) ==
    [k |-> "SetAttr", object |-> object, attr |-> attr, value |-> value]

ECallMethod(object, method, args) ==
    [k |-> "CallMethod", object |-> object, method |-> method, args |-> args]

ESuper == [k |-> "Super"]

SExpr(expr) == [k |-> "Expr", expr |-> expr]

SAssign(name, value) == [k |-> "Assign", name |-> name, value |-> value]

\* elif_branches is a sequence of <<condition, block>>; else_branch an Option.
SIf(condition, then_branch, elif_branches, else_branch) ==
    [k |-> "If", condition |-> condition, then_branch |-> then_branch,
     elif_branches |-> elif_branches, else_branch |-> else_branch]

SWhile(condition, body) == [k |-> "While", condition |-> condition, body |-> body]

SFor(var, start, end, body) ==
    [k |-> "For", var |-> var, start |-> start, end |-> end, body |-> body]

SForIn(var, array, body) == [k |-> "ForIn", var |-> var, array |-> array, body |-> body]

SReturn(expr) == [k |-> "Return", expr |-> expr]

SFunctionDef(name, params, body, is_async) ==
    [k |-> "FunctionDef", name |-> name, params |-> params, body |-> body,
     is_async |-> is_async]

SPrint(exprs) == [k |-> "Print", exprs |-> exprs]

\* target is <<>> for LoadTarget::All, <<file>> for LoadTarget::File(file).
SLoadFrom(folder, target) == [k |-> "LoadFrom", folder |-> folder, target |-> target]

SImportDll(path, name, alias) ==
    [k |-> "ImportDll", path |-> path, name |-> name, alias |-> alias]

STryCatch(try_body, catch_body) ==
    [k |-> "TryCatch", try_body |-> try_body, catch_body |-> catch_body]

\* fields is a sequence of <<name, expr>>, methods a sequence of UserFunction.
SClassDef(name, parent, fields, methods) ==
    [k |-> "ClassDef", name |-> name, parent |-> parent, fields |-> fields,
     methods |-> methods]

(***************************************************************************)
(* Text.  Source text is ASCII.  char::is_whitespace and the regex class   *)
(* \s are SpaceChar, the regex class \w is WordChar.                       *)
(***************************************************************************)
Char(s, i) == SubSeq(s, i, i)

From(s, i) == SubSeq(s, i, Len(s))

Digit == {"0", "1", "2", "3", "4", "5", "6", "7", "8", "9"}

Letter ==
    {"a", "b", "c", "d", "e", "f", "g", "h", "i", "j", "k", "l", "m", "n", "o", "p",
     "q", "r", "s", "t", "u", "v", "w", "x", "y", "z", "A", "B", "C", "D", "E", "F",
     "G", "H", "I", "J", "K", "L", "M", "N", "O", "P", "Q", "R", "S", "T", "U", "V",
     "W", "X", "Y", "Z"}

WordChar == Letter \cup Digit \cup {"_"}

SpaceChar == {" ", "\t", "\n", "\r", "\f"}

\* The first position from i on whose character is not in set (Len(s) + 1 if none).
SkipWhile(s, i, set) ==
    CHOOSE j \in i..(Len(s) + 1) :
        /\ j = Len(s) + 1 \/ Char(s, j) \notin set
        /\ \A k \in i..(j - 1) : Char(s, k) \in set

\* The last position down from i whose character is not in set (0 if none).
SkipBack(s, i, set) ==
    CHOOSE j \in 0..i :
        /\ j = 0 \/ Char(s, j) \notin set
        /\ \A k \in (j + 1)..i : Char(s, k) \in set

trim_start(s) == From(s, SkipWhile(s, 1, SpaceChar))

trim_end(s) == SubSeq(s, 1, SkipBack(s, Len(s), SpaceChar))

trim(s) == SubSeq(s, SkipWhile(s, 1, SpaceChar), SkipBack(s, Len(s), SpaceChar))

starts_with(s, prefix) == Len(s) >= Len(prefix) /\ SubSeq(s, 1, Len(prefix)) = prefix

(***************************************************************************)
(* The regex crate, as far as parser.rs uses it.  Every pattern there is   *)
(* anchored at both ends.  A pattern is a sequence of alternatives tried   *)
(* in order (an optional group gives two: with it, then without it); an    *)
(* alternative is a sequence of atoms; an atom matches one character of a  *)
(* class, or a greedy run of them (lo or more), and may belong to capture  *)
(* group g (0: none).  Matching backtracks from the longest run down.      *)
(***************************************************************************)
Atom(set, neg, lo, star, g) == [set |-> set, neg |-> neg, lo |-> lo, star |-> star, g |-> g]

\* the literal text str, in group g
Text(str, g) == [i \in 1..Len(str) |-> Atom({Char(str, i)}, FALSE, 1, FALSE, g)]

\* \s+ \s* \w+ \w*
Plus(set, g) == <<Atom(set, FALSE, 1, TRUE, g)>>

Star(set, g) == <<Atom(set, FALSE, 0, TRUE, g)>>

\* [^..]+ [^..]* and, with set = {"\n"}, .+ .*
NotPlus(set, g) == <<Atom(set, TRUE, 1, TRUE, g)>>

NotStar(set, g) == <<Atom(set, TRUE, 0, TRUE, g)>>

Accepts(atom, ch) == (ch \in atom.set) # atom.neg

\* The longest run atom can take from position i.
Run(atom, s, i) ==
    LET stop == CHOOSE j \in i..(Len(s) + 1) :
                    /\ j = Len(s) + 1 \/ ~Accepts(atom, Char(s, j))
                    /\ \A k \in i..(j - 1) : Accepts(atom, Char(s, k))
    IN  IF atom.star THEN stop - i ELSE IF stop > i THEN 1 ELSE 0

AddCapture(caps, g, text) ==
    IF g = 0 THEN caps
    ELSE Put(caps, g, text \o (IF g \in DOMAIN caps THEN caps[g] ELSE ""))

\* Atoms k.. of alt against s from position i to its end, atom k taking n
\* characters or, failing that, fewer.  Some(captures) or None.
RECURSIVE match_from(_, _, _, _, _)
match_from(alt, k, s, i, n) ==
    IF n < alt[k].lo THEN None
    ELSE LET rest == IF k = Len(alt)
                     THEN IF i + n = Len(s) + 1 THEN Some(EmptyMap) ELSE None
                     ELSE match_from(alt, k + 1, s, i + n, Run(alt[k + 1], s, i + n))
         IN  IF rest # None
             THEN Some(AddCapture(rest[1], alt[k].g, SubSeq(s, i, i + n - 1)))
             ELSE match_from(alt, k, s, i, n - 1)

\* Regex::captures
RECURSIVE captures(_, _)
captures(re, s) ==
    IF re = <<>> THEN None
    ELSE LET m == match_from(re[1], 1, s, 1, Run(re[1][1], s, 1))
         IN  IF m # None THEN m ELSE captures(Tail(re), s)

\* Regex::is_match
is_match(re, s) == captures(re, s) # None

\* parser.rs, lazy_static: the statement patterns.
RE_FUNCTION ==
    << Text("async", 1) \o Plus(SpaceChar, 0) \o Text("function", 0) \o Plus(SpaceChar, 0)
         \o Plus(WordChar, 2) \o Star(SpaceChar, 0) \o Text("(", 0) \o NotStar({")"}, 3)
         \o Text("):", 0),
       Text("function", 0) \o Plus(SpaceChar, 0)
         \o Plus(WordChar, 2) \o Star(SpaceChar, 0) \o Text("(", 0) \o NotStar({")"}, 3)
         \o Text("):", 0) >>

RE_IF == << Text("if", 0) \o Plus(SpaceChar, 0) \o NotPlus({"\n"}, 1) \o Text(":", 0) >>

RE_ELIF == << Text("elif", 0) \o Plus(SpaceChar, 0) \o NotPlus({"\n"}, 1) \o Text(":", 0) >>

RE_ELSE == << Text("else:", 0) >>

RE_WHILE == << Text("while", 0) \o Plus(SpaceChar, 0) \o NotPlus({"\n"}, 1) \o Text(":", 0) >>

RE_FOR ==
    << Text("for", 0) \o Plus(SpaceChar, 0) \o Plus(WordChar, 1) \o Star(SpaceChar, 0)
         \o Text("=", 0) \o Star(SpaceChar, 0) \o NotPlus({"\n"}, 2) \o Text(",", 0)
         \o Star(SpaceChar, 0) \o NotPlus({"\n"}, 3) \o Star(SpaceChar, 0) \o Text("do", 0) >>

RE_FOR_IN ==
    << Text("for", 0) \o Plus(SpaceChar, 0) \o Plus(WordChar, 1) \o Plus(SpaceChar, 0)
         \o Text("in", 0) \o Plus(SpaceChar, 0) \o NotPlus({"\n"}, 2) \o Text(":", 0) >>

RE_TRY == << Text("try:", 0) >>

RE_CATCH == << Text("catch:", 0) >>

RE_RETURN == << Text("return", 0) \o Plus(SpaceChar, 0) \o NotPlus({"\n"}, 1) >>

RE_PRINT == << Text("print(", 0) \o NotStar({"\n"}, 1) \o Text(")", 0) >>

RE_ASSIGN ==
    << Plus(WordChar, 1) \o Star(SpaceChar, 0) \o Text("=", 0) \o Star(SpaceChar, 0)
         \o NotPlus({"\n"}, 2) >>

RE_CALL == << Plus(WordChar, 1) \o Text("(", 0) \o NotStar({"\n"}, 2) \o Text(")", 0) >>

RE_LOAD ==
    << Text("load", 0) \o Plus(SpaceChar, 0) \o Text("from", 0) \o Plus(SpaceChar, 0)
         \o Plus(WordChar, 1) \o Plus(SpaceChar, 0) \o NotPlus({"\n"}, 2) >>

RE_CLASS ==
    << Text("class", 0) \o Plus(SpaceChar, 0) \o Plus(WordChar, 1) \o Star(SpaceChar, 0)
         \o Text("(", 0) \o Star(SpaceChar, 0) \o Star(WordChar, 2) \o Star(SpaceChar, 0)
         \o Text("):", 0),
       Text("class", 0) \o Plus(SpaceChar, 0) \o Plus(WordChar, 1) \o Text(":", 0) >>

RE_IMPORT_DLL ==
    << Text("from", 0) \o Plus(SpaceChar, 0) \o Text("dll", 0) \o Plus(SpaceChar, 0)
         \o Text("\"", 0) \o NotPlus({"\""}, 1) \o Text("\"", 0) \o Plus(SpaceChar, 0)
         \o Text("import", 0) \o Plus(SpaceChar, 0) \o Plus(WordChar, 2)
         \o Plus(SpaceChar, 0) \o Text("as", 0) \o Plus(SpaceChar, 0) \o Plus(WordChar, 3),
       Text("from", 0) \o Plus(SpaceChar, 0) \o Text("dll", 0) \o Plus(SpaceChar, 0)
         \o Text("\"", 0) \o NotPlus({"\""}, 1) \o Text("\"", 0) \o Plus(SpaceChar, 0)
         \o Text("import", 0) \o Plus(SpaceChar, 0) \o Plus(WordChar, 2) >>

(***************************************************************************)
(* parser.rs: the expression parser.  A parse result is [k |-> "ok", ..]   *)
(* or [k |-> "err", msg]; the token iterator is [toks, pos].               *)
(***************************************************************************)
ParseErr(msg) == [k |-> "err", msg |-> msg]

\* enum Token.  A Number holds the literal as the fraction num/den.
TokenNumber(num, den) == [tk |-> "Number", num |-> num, den |-> den]

TokenString(s) == [tk |-> "String", s |-> s]

TokenIdent(name) == [tk |-> "Ident", name |-> name]

TokenKeyword(kw) == [tk |-> "Keyword", kw |-> kw]

TokenOperator(op) == [tk |-> "Operator", op |-> op]

LParen == [tk |-> "LParen"]

RParen == [tk |-> "RParen"]

LBracket == [tk |-> "LBracket"]

RBracket == [tk |-> "RBracket"]

Comma == [tk |-> "Comma"]

Dot == [tk |-> "Dot"]

EOF == [tk |-> "EOF"]

\* The escapes of a string literal: the character pushed for `\ch`.
unescape(ch) ==
    CASE ch = "n" -> "\n"
      [] ch = "r" -> "\r"
      [] ch = "t" -> "\t"
      [] OTHER -> ch

\* tokenize, the string literal: the loop `while let Some(next) = chars.next()`
\* from position i; the text read and the position after the closing quote.
RECURSIVE string_literal(_, _, _, _, _)
string_literal(input, i, quote, escaped, s) ==
    IF i > Len(input) THEN [s |-> s, next |-> i]
    ELSE IF escaped THEN string_literal(input, i + 1, quote, FALSE, s \o unescape(Char(input, i)))
    ELSE IF Char(input, i) = "\\" THEN string_literal(input, i + 1, quote, TRUE, s)
    ELSE IF Char(input, i) = quote THEN [s |-> s, next |-> i + 1]
    ELSE string_literal(input, i + 1, quote, FALSE, s \o Char(input, i))

RECURSIVE digits_value(_)
digits_value(s) ==
    IF s = "" THEN 0
    ELSE digits_value(SubSeq(s, 1, Len(s) - 1)) * 10
         + (CHOOSE d \in 0..9 : DigitChar(d) = Char(s, Len(s)))

RECURSIVE Pow10(_)
Pow10(n) == IF n = 0 THEN 1 ELSE 10 * Pow10(n - 1)

\* `num.parse::<f64>()` of a run of digits and points that starts with a digit.
parse_f64(num) ==
    LET points == {i \in 1..Len(num) : Char(num, i) = "."}
    IN  IF points = {} THEN Some(TokenNumber(digits_value(num), 1))
        ELSE IF Cardinality(points) > 1 THEN None
        ELSE LET p == CHOOSE i \in points : TRUE
                 v == Ratio(digits_value(SubSeq(num, 1, p - 1) \o From(num, p + 1)),
                            Pow10(Len(num) - p))
             IN  Some(TokenNumber(v.num, v.den))

Keywords == {"true", "false", "null", "and", "or", "not", "super"}

\* tokenize: the loop `while let Some(ch) = chars.next()` from position i.
RECURSIVE lex(_, _, _)
lex(input, i, tokens) ==
    IF i > Len(input) THEN [k |-> "ok", tokens |-> Append(tokens, EOF)]
    ELSE LET ch == Char(input, i)
         IN  CASE ch \in {" ", "\t", "\n", "\r"} -> lex(input, i + 1, tokens)
               [] ch = "(" -> lex(input, i + 1, Append(tokens, LParen))
               [] ch = ")" -> lex(input, i + 1, Append(tokens, RParen))
               [] ch = "[" -> lex(input, i + 1, Append(tokens, LBracket))
               [] ch = "]" -> lex(input, i + 1, Append(tokens, RBracket))
               [] ch = "," -> lex(input, i + 1, Append(tokens, Comma))
               [] ch = "." -> lex(input, i + 1, Append(tokens, Dot))
               [] ch \in {"+", "-", "*", "/", "%", "=", "!", "<", ">"} ->
                    IF ch \in {"=", "!", "<", ">"} /\ i < Len(input) /\ Char(input, i + 1) = "="
                    THEN lex(input, i + 2, Append(tokens, TokenOperator(ch \o "=")))
                    ELSE lex(input, i + 1, Append(tokens, TokenOperator(ch)))
               [] ch \in {"\"", "'"} ->
                    LET lit == string_literal(input, i + 1, ch, FALSE, "")
                    IN  lex(input, lit.next, Append(tokens, TokenString(lit.s)))
               [] ch \in Digit ->
                    LET stop == SkipWhile(input, i + 1, Digit \cup {"."})
                        n == parse_f64(SubSeq(input, i, stop - 1))
                    IN  IF n = None
                        THEN ParseErr("Invalid number: " \o SubSeq(input, i, stop - 1))
                        ELSE lex(input, stop, Append(tokens, n[1]))
               [] ch \in Letter \cup {"_"} ->
                    LET stop == SkipWhile(input, i + 1, WordChar)
                        ident == SubSeq(input, i, stop - 1)
                    IN  lex(input, stop,
                            Append(tokens, IF ident \in Keywords THEN TokenKeyword(ident)
                                           ELSE TokenIdent(ident)))
               [] OTHER -> ParseErr("Unexpected character: " \o ch)

tokenize(input) == lex(input, 1, <<>>)

\* Peekable<IntoIter<Token>>
peek(iter) == IF iter.pos <= Len(iter.toks) THEN Some(iter.toks[iter.pos]) ELSE None

advance(iter) == [iter EXCEPT !.pos = @ + 1]

Parsed(e, iter) == [k |-> "ok", e |-> e, iter |-> iter]

IsToken(tok, tk) == tok # None /\ tok[1].tk = tk

IsKeyword(tok, kws) == IsToken(tok, "Keyword") /\ tok[1].kw \in kws

IsOperator(tok, ops) == IsToken(tok, "Operator") /\ tok[1].op \in ops

\* The levels of the recursive descent call one another; descend(f, iter) is
\* the result of the call of level f.
RECURSIVE descend(_, _)

parse_or(iter) == descend("parse_or", iter)

parse_and(iter) == descend("parse_and", iter)

parse_comparison(iter) == descend("parse_comparison", iter)

parse_addition(iter) == descend("parse_addition", iter)

parse_multiplication(iter) == descend("parse_multiplication", iter)

parse_unary(iter) == descend("parse_unary", iter)

parse_postfix(iter) == descend("parse_postfix", iter)

parse_primary(iter) == descend("parse_primary", iter)

\* `left = Expr::BinaryOp { left, op, right }` with right the result r, `?` applied
binary(left, op, r) == IF r.k # "ok" THEN r ELSE [r EXCEPT !.e = EBinaryOp(left, op, @)]

unary(op, r) == IF r.k # "ok" THEN r ELSE [r EXCEPT !.e = EUnaryOp(op, @)]

\* parse_or, parse_and: the `while let Some(Token::Keyword(kw)) = iter.peek()` loops
RECURSIVE or_loop(_)
or_loop(left) ==
    IF left.k # "ok" \/ ~IsKeyword(peek(left.iter), {"or"}) THEN left
    ELSE or_loop(binary(left.e, "Or", parse_and(advance(left.iter))))

or_level(iter) == or_loop(parse_and(iter))

RECURSIVE and_loop(_)
and_loop(left) ==
    IF left.k # "ok" \/ ~IsKeyword(peek(left.iter), {"and"}) THEN left
    ELSE and_loop(binary(left.e, "And", parse_comparison(advance(left.iter))))

and_level(iter) == and_loop(parse_comparison(iter))

BinaryOpKind(op) ==
    CASE op = "==" -> "Eq" [] op = "!=" -> "Ne" [] op = "<" -> "Lt" [] op = "<=" -> "Le"
      [] op = ">" -> "Gt" [] op = ">=" -> "Ge" [] op = "+" -> "Add" [] op = "-" -> "Sub"
      [] op = "*" -> "Mul" [] op = "/" -> "Div" [] OTHER -> "Mod"

comparison_rest(left) ==
    IF left.k # "ok" \/ ~IsOperator(peek(left.iter), {"==", "!=", "<", "<=", ">", ">="})
    THEN left
    ELSE binary(left.e, BinaryOpKind(peek(left.iter)[1].op),
                parse_addition(advance(left.iter)))

comparison_level(iter) == comparison_rest(parse_addition(iter))

RECURSIVE addition_loop(_)
addition_loop(left) ==
    IF left.k # "ok" \/ ~IsOperator(peek(left.iter), {"+", "-"}) THEN left
    ELSE addition_loop(binary(left.e, BinaryOpKind(peek(left.iter)[1].op),
                              parse_multiplication(advance(left.iter))))

addition_level(iter) == addition_loop(parse_multiplication(iter))

RECURSIVE multiplication_loop(_)
multiplication_loop(left) ==
    IF left.k # "ok" \/ ~IsOperator(peek(left.iter), {"*", "/", "%"}) THEN left
    ELSE multiplication_loop(binary(left.e, BinaryOpKind(peek(left.iter)[1].op),
                                    parse_unary(advance(left.iter))))

multiplication_level(iter) == multiplication_loop(parse_unary(iter))

unary_level(iter) ==
    IF IsOperator(peek(iter), {"-"}) THEN unary("Neg", parse_unary(advance(iter)))
    ELSE IF IsKeyword(peek(iter), {"not"}) THEN unary("Not", parse_unary(advance(iter)))
    ELSE parse_postfix(iter)

\* parse_postfix, `Some(Token::LParen)`: the loop that reads the arguments, arg
\* being the result of parse_or for the next one.
RECURSIVE call_arguments(_, _)
call_arguments(args, arg) ==
    IF arg.k # "ok" THEN arg
    ELSE IF IsToken(peek(arg.iter), "Comma")
    THEN call_arguments(Append(args, arg.e), parse_or(advance(arg.iter)))
    ELSE IF IsToken(peek(arg.iter), "RParen")
    THEN [k |-> "ok", args |-> Append(args, arg.e), iter |-> advance(arg.iter)]
    ELSE ParseErr("Expected ',' or ')' after argument")

\* `match left { Expr::GetAttr .. => CallMethod, Expr::Variable(name) => Call, .. }`
make_call(left, a) ==
    IF a.k # "ok" THEN a
    ELSE CASE left.k = "GetAttr" -> Parsed(ECallMethod(left.object, left.attr, a.args), a.iter)
           [] left.k = "Variable" -> Parsed(ECall(left.name, a.args), a.iter)
           [] OTHER -> ParseErr("Cannot call non-function or non-method")

make_index(left, index) ==
    IF index.k # "ok" THEN index
    ELSE IF IsToken(peek(index.iter), "RBracket")
    THEN Parsed(EIndex(left, index.e), advance(index.iter))
    ELSE ParseErr("Expected ']' after index")

make_attr(left, iter) ==
    IF IsToken(peek(iter), "Ident")
    THEN Parsed(EGetAttr(left, peek(iter)[1].name), advance(iter))
    ELSE ParseErr("Expected attribute name after '.'")

RECURSIVE postfix_loop(_)
postfix_loop(left) ==
    IF left.k # "ok" THEN left
    ELSE CASE IsToken(peek(left.iter), "LParen") ->
                postfix_loop(make_call(left.e,
                    IF IsToken(peek(advance(left.iter)), "RParen")
                    THEN [k |-> "ok", args |-> <<>>, iter |-> advance(advance(left.iter))]
                    ELSE call_arguments(<<>>, parse_or(advance(left.iter)))))
           [] IsToken(peek(left.iter), "LBracket") ->
                postfix_loop(make_index(left.e, parse_or(advance(left.iter))))
           [] IsToken(peek(left.iter), "Dot") ->
                postfix_loop(make_attr(left.e, advance(left.iter)))
           [] OTHER -> left

postfix_level(iter) == postfix_loop(parse_primary(iter))

close_paren(expr) ==
    IF expr.k # "ok" THEN expr
    ELSE IF IsToken(peek(expr.iter), "RParen") THEN Parsed(expr.e, advance(expr.iter))
    ELSE ParseErr("Expected ')'")

primary_of(tok, iter) ==
    CASE tok.tk = "Number" -> Parsed(ENum(tok.num, tok.den), iter)
      [] tok.tk = "String" -> Parsed(EString(tok.s), iter)
      [] tok.tk = "Keyword" ->
           CASE tok.kw = "true" -> Parsed(EBoolean(TRUE), iter)
             [] tok.kw = "false" -> Parsed(EBoolean(FALSE), iter)
             [] tok.kw = "null" -> Parsed(ENull, iter)
             [] tok.kw = "super" -> Parsed(ESuper, iter)
             [] OTHER -> ParseErr("Unexpected keyword: " \o tok.kw)
      [] tok.tk = "Ident" -> Parsed(EVariable(tok.name), iter)
      [] tok.tk = "LParen" -> close_paren(parse_or(iter))
      [] tok.tk = "EOF" -> ParseErr("Unexpected end of expression")
      [] OTHER -> ParseErr("Unexpected token")

primary_level(iter) ==
    IF peek(iter) = None THEN ParseErr("Unexpected token")
    ELSE primary_of(peek(iter)[1], advance(iter))

descend(f, iter) ==
    CASE f = "parse_or" -> or_level(iter)
      [] f = "parse_and" -> and_level(iter)
      [] f = "parse_comparison" -> comparison_level(iter)
      [] f = "parse_addition" -> addition_level(iter)
      [] f = "parse_multiplication" -> multiplication_level(iter)
      [] f = "parse_unary" -> unary_level(iter)
      [] f = "parse_postfix" -> postfix_level(iter)
      [] OTHER -> primary_level(iter)

\* parse_expr, after the expression is read: nothing but EOF may be left.
end_of_expr(expr) ==
    IF expr.k # "ok" THEN expr
    ELSE IF peek(expr.iter) # None /\ peek(expr.iter)[1] # EOF
    THEN ParseErr("Unexpected tokens at end of expression")
    ELSE [k |-> "ok", e |-> expr.e]

tokens_expr(tokens) ==
    IF tokens.k # "ok" THEN tokens
    ELSE end_of_expr(parse_or([toks |-> tokens.tokens, pos |-> 1]))

parse_expr(input) == tokens_expr(tokenize(input))

\* parse_arguments: the loop `for ch in s.chars()`.  c is the loop state.
argument_char(c, ch) ==
    IF c.in_string
    THEN IF c.escaped THEN [c EXCEPT !.current = @ \o unescape(ch), !.escaped = FALSE]
         ELSE IF ch = "\\" THEN [c EXCEPT !.escaped = TRUE]
         ELSE [c EXCEPT !.current = @ \o ch, !.in_string = (ch # c.quote_char)]
    ELSE CASE ch \in {"\"", "'"} ->
                [c EXCEPT !.in_string = TRUE, !.quote_char = ch, !.current = @ \o ch]
           [] ch = "(" -> [c EXCEPT !.depth = @ + 1, !.current = @ \o ch]
           [] ch = ")" -> [c EXCEPT !.depth = @ - 1, !.current = @ \o ch]
           [] ch = "," /\ c.depth = 0 ->
                [c EXCEPT !.args = Append(@, trim(c.current)), !.current = ""]
           [] OTHER -> [c EXCEPT !.current = @ \o ch]

RECURSIVE argument_chars(_, _, _)
argument_chars(s, i, c) ==
    IF i > Len(s) THEN c ELSE argument_chars(s, i + 1, argument_char(c, Char(s, i)))

split_arguments(s) ==
    LET c == argument_chars(s, 1, [args |-> <<>>, current |-> "", depth |-> 0,
                                  in_string |-> FALSE, quote_char |-> "", escaped |-> FALSE])
    IN  IF c.current # "" THEN Append(c.args, trim(c.current)) ELSE c.args

\* `args.into_iter().map(|a| parse_expr(&a)).collect()`: the first error, if any.
RECURSIVE parse_each(_, _)
parse_each(args, exprs) ==
    IF args = <<>> THEN [k |-> "ok", exprs |-> exprs]
    ELSE LET e == parse_expr(args[1])
         IN  IF e.k # "ok" THEN e ELSE parse_each(Tail(args), Append(exprs, e.e))

parse_arguments(s) ==
    IF trim(s) = "" THEN [k |-> "ok", exprs |-> <<>>] ELSE parse_each(split_arguments(s), <<>>)

(***************************************************************************)
(* parser.rs: statements and blocks.  Line indices i count from 0 as in    *)
(* the source; line i is lines[i + 1].                                     *)
(***************************************************************************)
count_indent(line) == SkipWhile(line, 1, {" "}) - 1

is_comment(line) == starts_with(trim_start(line), "//") \/ starts_with(trim_start(line), "#")

Blank(line) == trim(line) = "" \/ is_comment(line)

\* `caps[3].split(',')`
RECURSIVE split(_, _)
split(s, sep) ==
    LET p == SkipWhile(s, 1, {Char(s, i) : i \in 1..Len(s)} \ {sep})
    IN  IF p > Len(s) THEN <<s>> ELSE <<SubSeq(s, 1, p - 1)>> \o split(From(s, p + 1), sep)

\* `.map(|s| s.trim().to_string()).filter(|s| !s.is_empty()).collect()`
trimmed_nonempty(parts) ==
    LET t == [i \in DOMAIN parts |-> trim(parts[i])]
    IN  SelectSeq(t, LAMBDA x : x # "")

ParsedStmt(stmt) == [k |-> "ok", stmt |-> stmt]

\* `let e = parse_expr(..)?; return Ok(make(e))`
stmt_of_expr(e, kind, name) ==
    IF e.k # "ok" THEN e
    ELSE CASE kind = "If" -> ParsedStmt(SIf(e.e, <<>>, <<>>, None))
           [] kind = "While" -> ParsedStmt(SWhile(e.e, <<>>))
           [] kind = "ForIn" -> ParsedStmt(SForIn(name, e.e, <<>>))
           [] kind = "Return" -> ParsedStmt(SReturn(e.e))
           [] OTHER -> ParsedStmt(SAssign(name, e.e))

stmt_of_for(var, start, end) ==
    IF start.k # "ok" THEN start
    ELSE IF end.k # "ok" THEN end
    ELSE ParsedStmt(SFor(var, start.e, end.e, <<>>))

stmt_of_arguments(args, kind, name) ==
    IF args.k # "ok" THEN args
    ELSE IF kind = "Print" THEN ParsedStmt(SPrint(args.exprs))
    ELSE ParsedStmt(SExpr(ECall(name, args.exprs)))

stmt_of_function(caps) ==
    ParsedStmt(SFunctionDef(caps[2], trimmed_nonempty(split(caps[3], ",")), <<>>,
                            1 \in DOMAIN caps))

stmt_of_load(caps) ==
    ParsedStmt(SLoadFrom(caps[1], IF trim(caps[2]) = "all" THEN <<>> ELSE <<trim(caps[2])>>))

stmt_of_class(caps) ==
    ParsedStmt(SClassDef(caps[1], IF 2 \in DOMAIN caps THEN Some(caps[2]) ELSE None,
                         <<>>, <<>>))

stmt_of_import(caps) ==
    ParsedStmt(SImportDll(caps[1], caps[2], IF 3 \in DOMAIN caps THEN caps[3] ELSE caps[2]))

parse_stmt(line, line_num) ==
    IF is_match(RE_FUNCTION, line) THEN stmt_of_function(captures(RE_FUNCTION, line)[1])
    ELSE IF is_match(RE_IF, line)
    THEN stmt_of_expr(parse_expr(captures(RE_IF, line)[1][1]), "If", "")
    ELSE IF is_match(RE_WHILE, line)
    THEN stmt_of_expr(parse_expr(captures(RE_WHILE, line)[1][1]), "While", "")
    ELSE IF is_match(RE_FOR, line)
    THEN stmt_of_for(captures(RE_FOR, line)[1][1],
                     parse_expr(captures(RE_FOR, line)[1][2]),
                     parse_expr(captures(RE_FOR, line)[1][3]))
    ELSE IF is_match(RE_FOR_IN, line)
    THEN stmt_of_expr(parse_expr(captures(RE_FOR_IN, line)[1][2]), "ForIn",
                      captures(RE_FOR_IN, line)[1][1])
    ELSE IF is_match(RE_TRY, line) THEN ParsedStmt(STryCatch(<<>>, <<>>))
    ELSE IF is_match(RE_RETURN, line)
    THEN stmt_of_expr(parse_expr(captures(RE_RETURN, line)[1][1]), "Return", "")
    ELSE IF is_match(RE_PRINT, line)
    THEN stmt_of_arguments(parse_arguments(captures(RE_PRINT, line)[1][1]), "Print", "")
    ELSE IF is_match(RE_ASSIGN, line)
    THEN stmt_of_expr(parse_expr(captures(RE_ASSIGN, line)[1][2]), "Assign",
                      captures(RE_ASSIGN, line)[1][1])
    ELSE IF is_match(RE_CALL, line)
    THEN stmt_of_arguments(parse_arguments(captures(RE_CALL, line)[1][2]), "Call",
                           captures(RE_CALL, line)[1][1])
    ELSE IF is_match(RE_LOAD, line) THEN stmt_of_load(captures(RE_LOAD, line)[1])
    ELSE IF is_match(RE_CLASS, line) THEN stmt_of_class(captures(RE_CLASS, line)[1])
    ELSE IF is_match(RE_IMPORT_DLL, line)
    THEN stmt_of_import(captures(RE_IMPORT_DLL, line)[1])
    ELSE ParseErr("Invalid syntax at line " \o ToString(line_num) \o ": " \o line)

IndentAt(lines, i) == count_indent(lines[i + 1])

\* parse_block: the loop `while i < lines.len()` with the statements read so far.
\* A result is [k |-> "ok", stmts, next] (next: the index of the first line not
\* consumed) or an error.
RECURSIVE block_loop(_, _, _, _)

parse_block(lines, min_indent, start) == block_loop(lines, min_indent, start, <<>>)

ReplaceLast(stmts, stmt) == [stmts EXCEPT ![Len(stmts)] = stmt]

\* `for stmt in nested { match stmt { Assign => fields.push, FunctionDef => methods.push } }`
RECURSIVE class_members(_, _, _)
class_members(class, nested, i) ==
    IF nested = <<>> THEN ParsedStmt(class)
    ELSE IF nested[1].k = "Assign"
    THEN class_members([class EXCEPT !.fields = Append(@, <<nested[1].name, nested[1].value>>)],
                       Tail(nested), i)
    ELSE IF nested[1].k = "FunctionDef"
    THEN class_members([class EXCEPT !.methods =
                            Append(@, UserFunction(nested[1].name, nested[1].params,
                                                   nested[1].body, nested[1].is_async))],
                       Tail(nested), i)
    ELSE ParseErr("Invalid statement inside class at line " \o ToString(i + 1))

\* The last statement with the nested block put in its place.
with_block(last, nested, i) ==
    CASE last.k \in {"While", "For", "ForIn", "FunctionDef"} ->
           ParsedStmt([last EXCEPT !.body = nested])
      [] last.k = "If" -> ParsedStmt([last EXCEPT !.then_branch = nested])
      [] last.k = "TryCatch" -> ParsedStmt([last EXCEPT !.try_body = nested])
      [] OTHER -> class_members(last, nested, i)

replaced(lines, min_indent, stmts, next, last) ==
    IF last.k # "ok" THEN last
    ELSE block_loop(lines, min_indent, next, ReplaceLast(stmts, last.stmt))

attach(lines, min_indent, i, stmts, nested) ==
    IF nested.k # "ok" THEN nested
    ELSE replaced(lines, min_indent, stmts, nested.next,
                  with_block(stmts[Len(stmts)], nested.stmts, i))

\* parse_block, `if indent > min_indent`
deeper_line(lines, min_indent, i, stmts) ==
    IF stmts = <<>> THEN ParseErr("Unexpected indentation at line " \o ToString(i + 1))
    ELSE IF stmts[Len(stmts)].k \in {"While", "For", "ForIn", "FunctionDef", "If",
                                     "TryCatch", "ClassDef"}
    THEN attach(lines, min_indent, i, stmts, parse_block(lines, IndentAt(lines, i), i))
    ELSE ParseErr("Line " \o ToString(i + 1) \o " cannot have a block")

\* The block that has to follow the header `what`; i is the index after the header.
block_after(lines, min_indent, i, what) ==
    IF i >= Len(lines)
    THEN ParseErr("Expected block after " \o what \o " at line " \o ToString(i))
    ELSE IF IndentAt(lines, i) <= min_indent
    THEN ParseErr("Expected indented block after " \o what \o " at line " \o ToString(i + 1))
    ELSE parse_block(lines, IndentAt(lines, i), i)

Chain(stmt, next) == [k |-> "ok", stmt |-> stmt, next |-> next]

\* parse_block, if-elif-else: the loop over the lines after the then block.
RECURSIVE elif_loop(_, _, _, _)

elif_push(lines, min_indent, current_if, cond, elif_body) ==
    IF elif_body.k # "ok" THEN elif_body
    ELSE elif_loop(lines, min_indent, elif_body.next,
                   [current_if EXCEPT !.elif_branches = Append(@, <<cond, elif_body.stmts>>)])

elif_branch(lines, min_indent, i, current_if, cond) ==
    IF cond.k # "ok" THEN cond
    ELSE elif_push(lines, min_indent, current_if, cond.e,
                   block_after(lines, min_indent, i + 1, "elif"))

else_push(current_if, else_body) ==
    IF else_body.k # "ok" THEN else_body
    ELSE Chain([current_if EXCEPT !.else_branch = Some(else_body.stmts)], else_body.next)

elif_loop(lines, min_indent, i, current_if) ==
    IF i >= Len(lines) THEN Chain(current_if, i)
    ELSE IF Blank(lines[i + 1]) THEN elif_loop(lines, min_indent, i + 1, current_if)
    ELSE IF IndentAt(lines, i) # min_indent THEN Chain(current_if, i)
    ELSE IF is_match(RE_ELIF, trim(lines[i + 1]))
    THEN elif_branch(lines, min_indent, i, current_if,
                     parse_expr(captures(RE_ELIF, trim(lines[i + 1]))[1][1]))
    ELSE IF is_match(RE_ELSE, trim(lines[i + 1]))
    THEN else_push(current_if, block_after(lines, min_indent, i + 1, "else"))
    ELSE Chain(current_if, i)

push_chain(lines, min_indent, stmts, chain) ==
    IF chain.k # "ok" THEN chain
    ELSE block_loop(lines, min_indent, chain.next, Append(stmts, chain.stmt))

if_chain(lines, min_indent, condition, then_body) ==
    IF then_body.k # "ok" THEN then_body
    ELSE elif_loop(lines, min_indent, then_body.next,
                   SIf(condition, then_body.stmts, <<>>, None))

\* parse_block, try-catch: the blank and comment lines after the try block
RECURSIVE skip_blank(_, _)
skip_blank(lines, i) ==
    IF i < Len(lines) /\ Blank(lines[i + 1]) THEN skip_blank(lines, i + 1) ELSE i

catch_push(try_body, catch_body) ==
    IF catch_body.k # "ok" THEN catch_body
    ELSE Chain(STryCatch(try_body, catch_body.stmts), catch_body.next)

catch_at(lines, min_indent, i, try_body) ==
    IF /\ i < Len(lines)
       /\ IndentAt(lines, i) = min_indent
       /\ is_match(RE_CATCH, trim(lines[i + 1]))
    THEN catch_push(try_body, block_after(lines, min_indent, i + 1, "catch"))
    ELSE ParseErr("Expected catch after try")

try_chain(lines, min_indent, try_body) ==
    IF try_body.k # "ok" THEN try_body
    ELSE catch_at(lines, min_indent, skip_blank(lines, try_body.next), try_body.stmts)

\* parse_block, from `let stmt = parse_stmt(trimmed, i + 1)?` on.
statement_at(lines, min_indent, i, stmts, stmt) ==
    IF stmt.k # "ok" THEN stmt
    ELSE IF stmt.stmt.k = "If"
    THEN push_chain(lines, min_indent, stmts,
                    if_chain(lines, min_indent, stmt.stmt.condition,
                             block_after(lines, min_indent, i + 1, "if")))
    ELSE IF stmt.stmt.k = "TryCatch"
    THEN push_chain(lines, min_indent, stmts,
                    try_chain(lines, min_indent, block_after(lines, min_indent, i + 1, "try")))
    ELSE block_loop(lines, min_indent, i + 1, Append(stmts, stmt.stmt))

block_loop(lines, min_indent, i, stmts) ==
    IF i >= Len(lines) THEN [k |-> "ok", stmts |-> stmts, next |-> i]
    ELSE IF Blank(lines[i + 1]) THEN block_loop(lines, min_indent, i + 1, stmts)
    ELSE IF IndentAt(lines, i) < min_indent THEN [k |-> "ok", stmts |-> stmts, next |-> i]
    ELSE IF IndentAt(lines, i) > min_indent THEN deeper_line(lines, min_indent, i, stmts)
    ELSE statement_at(lines, min_indent, i, stmts, parse_stmt(trim(lines[i + 1]), i + 1))

\* parse: the loop over the top-level blocks.
RECURSIVE parse_loop(_, _, _)

parse_extend(lines, stmts, block) ==
    IF block.k # "ok" THEN block ELSE parse_loop(lines, block.next, stmts \o block.stmts)

parse_loop(lines, i, stmts) ==
    IF i >= Len(lines) THEN [k |-> "ok", stmts |-> stmts]
    ELSE IF Blank(lines[i + 1]) THEN parse_loop(lines, i + 1, stmts)
    ELSE parse_extend(lines, stmts, parse_block(lines, IndentAt(lines, i), i))

parse(lines) == parse_loop(lines, 0, <<>>)

(***************************************************************************)
(* eval.rs: the operators.                                                 *)
(***************************************************************************)
\* f64 arithmetic on the rationals; NaN is absorbing.
RatAdd(x, y) ==
    IF IsNaN(x) \/ IsNaN(y) THEN NaN
    ELSE Ratio(x.num * y.den + y.num * x.den, x.den * y.den)

RatNeg(x) == IF IsNaN(x) THEN NaN ELSE [x EXCEPT !.num = -x.num]

RatMul(x, y) ==
    IF IsNaN(x) \/ IsNaN(y) THEN NaN ELSE Ratio(x.num * y.num, x.den * y.den)

\* x / y for y # 0
RatDiv(x, y) ==
    IF IsNaN(x) \/ IsNaN(y) THEN NaN ELSE Ratio(x.num * y.den, x.den * y.num)

\* x % y of f64: the remainder has the sign of x; x % 0 is NaN.
RatRem(x, y) ==
    IF IsNaN(x) \/ IsNaN(y) \/ y.num = 0 THEN NaN
    ELSE RatAdd(x, RatNeg(RatMul(y, Number(Trunc(RatDiv(x, y))))))

RatLess(x, y) == ~IsNaN(x) /\ ~IsNaN(y) /\ x.num * y.den < y.num * x.den

\* add
add(a, b, st) ==
    CASE a.t = "Number" /\ b.t = "Number" -> Ok(st, RatAdd(a, b))
      [] a.t = "String" /\ b.t = "String" -> Ok(st, String(a.s \o b.s))
      [] a.t = "String" /\ b.t # "String" -> Ok(st, String(a.s \o fmt(b, st)))
      [] a.t # "String" /\ b.t = "String" -> Ok(st, String(fmt(a, st) \o b.s))
      [] a.t = "Array" /\ b.t = "Array" ->
           new_array(st, st.arrays[a.a] \o st.arrays[b.a])
      [] OTHER -> Err(st, "Invalid operands for +")

\* sub
sub(a, b, st) ==
    IF a.t = "Number" /\ b.t = "Number" THEN Ok(st, RatAdd(a, RatNeg(b)))
    ELSE Err(st, "Invalid operands for -")

\* mul
mul(a, b, st) ==
    IF a.t = "Number" /\ b.t = "Number" THEN Ok(st, RatMul(a, b))
    ELSE Err(st, "Invalid operands for *")

\* div
div(a, b, st) ==
    IF a.t = "Number" /\ b.t = "Number"
    THEN IF ~IsNaN(b) /\ b.num = 0 THEN Err(st, "Division by zero")
         ELSE Ok(st, RatDiv(a, b))
    ELSE Err(st, "Invalid operands for /")

\* modulo
modulo(a, b, st) ==
    IF a.t = "Number" /\ b.t = "Number" THEN Ok(st, RatRem(a, b))
    ELSE Err(st, "Invalid operands for %")

\* The closure handed to cmp, on two f64.
CmpNumbers(op, x, y) ==
    CASE op = "Lt" -> RatLess(x, y)
      [] op = "Le" -> RatLess(x, y) \/ ValueEq(x, y)
      [] op = "Gt" -> RatLess(y, x)
      [] OTHER -> RatLess(y, x) \/ ValueEq(x, y)

\* cmp
cmp(a, b, op, st) ==
    CASE a.t = "Number" /\ b.t = "Number" -> Ok(st, Boolean(CmpNumbers(op, a, b)))
      [] a.t = "String" /\ b.t = "String" ->
           Ok(st, Boolean(CmpNumbers(op, Number(str_len(a.s)), Number(str_len(b.s)))))
      [] OTHER -> Err(st, "Comparison not supported for these types")

\* An and/or that gives back the operand that decides, as it is.
binary_op_operand(op, l, r, st) ==
    CASE op = "Add" -> add(l, r, st)
      [] op = "Sub" -> sub(l, r, st)
      [] op = "Mul" -> mul(l, r, st)
      [] op = "Div" -> div(l, r, st)
      [] op = "Mod" -> modulo(l, r, st)
      [] op = "Eq" -> Ok(st, Boolean(ValueEq(l, r)))
      [] op = "Ne" -> Ok(st, Boolean(~ValueEq(l, r)))
      [] op \in {"Lt", "Le", "Gt", "Ge"} -> cmp(l, r, op, st)
      [] op = "And" -> Ok(st, IF as_bool(l, st) THEN r ELSE l)
      [] OTHER -> Ok(st, IF as_bool(l, st) THEN l ELSE r)

\* eval_expr, Expr::BinaryOp: the operator applied to the two operand values.
binary_op(op, l, r, st) ==
    CASE op = "Add" -> add(l, r, st)
      [] op = "Sub" -> sub(l, r, st)
      [] op = "Mul" -> mul(l, r, st)
      [] op = "Div" -> div(l, r, st)
      [] op = "Mod" -> modulo(l, r, st)
      [] op = "Eq" -> Ok(st, Boolean(ValueEq(l, r)))
      [] op = "Ne" -> Ok(st, Boolean(~ValueEq(l, r)))
      [] op \in {"Lt", "Le", "Gt", "Ge"} -> cmp(l, r, op, st)
      [] op = "And" -> Ok(st, Boolean(as_bool(l, st) /\ as_bool(r, st)))
      [] OTHER -> Ok(st, Boolean(as_bool(l, st) \/ as_bool(r, st)))

(***************************************************************************)
(* eval.rs: eval_block, eval_stmt, eval_expr.                              *)
(*                                                                         *)
(* st.steps counts the statements and loop iterations executed; a run that *)
(* reaches MaxSteps is cut off with k = "fuel", which nothing catches.     *)
(* st.catches is a history of the try/catch statements that caught an      *)
(* error: the bindings and arrays at try entry, at the error and at the    *)
(* start of the catch body.  It is written and never read by the program.  *)
(***************************************************************************)
\* eval_stmt and eval_expr return a boxed future (`Box::pin(async move { .. })`)
\* and eval_block is an async fn; every call of one of them is awaited on the
\* spot.  await(f, node, st) is the result of driving the future of f to its end.
RECURSIVE await(_, _, _)

eval_block(stmts, st) == await("eval_block", stmts, st)

eval_stmt(stmt, st) == await("eval_stmt", stmt, st)

eval_expr(expr, st) == await("eval_expr", expr, st)

RECURSIVE eval_args(_, _)
RECURSIVE eval_elifs(_, _, _)
RECURSIVE eval_while(_, _)
RECURSIVE for_loop(_, _, _, _, _)
RECURSIVE for_in_loop(_, _, _, _, _, _)
RECURSIVE print_args(_, _, _)
RECURSIVE class_fields(_, _, _)

Tick(st) == [st EXCEPT !.steps = @ + 1]

\* Arguments evaluated from the last to the first.
eval_args_last_first(args, st) ==
    IF args = <<>> THEN [k |-> "ok", st |-> st, vals |-> <<>>]
    ELSE LET rest == eval_args(Tail(args), st)
         IN  IF rest.k # "ok" THEN rest
             ELSE LET r == eval_expr(args[1], rest.st)
                  IN  IF r.k # "ok" THEN r
                      ELSE [k |-> "ok", st |-> r.st, vals |-> <<r.val>> \o rest.vals]

\* `for arg in args { arg_vals.push(eval_expr(arg, env).await?) }`
eval_args(args, st) ==
    IF args = <<>> THEN [k |-> "ok", st |-> st, vals |-> <<>>]
    ELSE LET r == eval_expr(args[1], st)
         IN  IF r.k # "ok" THEN r
             ELSE LET rest == eval_args(Tail(args), r.st)
                  IN  IF rest.k # "ok" THEN rest
                      ELSE [rest EXCEPT !.vals = <<r.val>> \o @]

\* `for (p, v) in func.params.iter().zip(call_args) { local_env.set_var(p, v) }`
RECURSIVE bind_params(_, _, _)
bind_params(env, params, vals) ==
    IF params = <<>> \/ vals = <<>> THEN env
    ELSE bind_params(set_var(env, params[1], vals[1]), Tail(params), Tail(vals))

\* A call whose byte memory and registers are the caller's own: what the
\* callee wrote stays written after the call.
leave_call_shared_memory(r, caller_env) ==
    [r EXCEPT !.st.env = [caller_env EXCEPT !.memory = r.st.env.memory,
                                            !.registers = r.st.env.registers]]

\* A call that hands the scope of the callee back to the caller.
stay_in_call(r, caller_env) == r

\* The end of a call that hands the functions and classes of the callee to
\* the caller.
leave_call_with_definitions(r, caller_env) ==
    [r EXCEPT !.st.env = [caller_env EXCEPT !.funcs = r.st.env.funcs,
                                            !.classes = r.st.env.classes]]

\* The end of a call: local_env is dropped and the caller goes on in the scope it
\* called from; the stores and the output keep what the callee did.
leave_call(r, caller_env) == [r EXCEPT !.st.env = caller_env]

\* `let mut local_env = env.child(); ...; eval_block(&func.body, &mut local_env)`
invoke(func, call_args, st) ==
    LET local_env == bind_params(child(st.env), func.params, call_args)
    IN  leave_call(eval_block(func.body, [st EXCEPT !.env = local_env]), st.env)

\* A call that ends every error of the callee: the call evaluates to null.
call_result_null(r) ==
    CASE r.k = "some" -> Ok(r.st, r.val)
      [] r.k \in {"none", "err"} -> Ok(r.st, Null)
      [] OTHER -> r

\* `Ok(result.unwrap_or(Value::Null))`, errors passed on by `?`
call_result(r) ==
    CASE r.k = "some" -> Ok(r.st, r.val)
      [] r.k = "none" -> Ok(r.st, Null)
      [] OTHER -> r

\* A call of a user function that does not count the arguments: the
\* parameters are bound as far as the arguments go and the body runs.
call_user_uncounted(name, func, arg_vals, st) == call_result(invoke(func, arg_vals, st))

\* eval_expr, Expr::Call: the user-function branch.
call_user(name, func, arg_vals, st) ==
    IF Len(arg_vals) # Len(func.params)
    THEN Err(st, "Function '" \o name \o "' expects " \o ToString(Len(func.params))
                 \o " arguments, got " \o ToString(Len(arg_vals)))
    ELSE call_result(invoke(func, arg_vals, st))

\* Value::call_as_class
call_as_class(class_val, args, st) ==
    IF class_val.t # "Class" THEN Err(st, "Not a class")
    ELSE LET s1 == [st EXCEPT !.maps = Append(@, EmptyMap)]
             instance == Instance(class_val, Len(st.maps) + 1)
         IN  IF "__init__" \in DOMAIN class_val.methods
             THEN LET init == class_val.methods["__init__"]
                      call_args == <<instance>> \o args
                  IN  IF Len(call_args) # Len(init.params)
                      THEN Err(s1, "Constructor __init__ expects "
                                   \o ToString(Len(init.params)) \o " arguments, got "
                                   \o ToString(Len(call_args)))
                      ELSE LET r == invoke(init, call_args, s1)
                           IN  IF r.k \in {"some", "none"} THEN Ok(r.st, instance) ELSE r
             ELSE Ok(s1, instance)

\* A resolution that asks for a user function first, then for a builtin, then
\* for a class.
resolve_user_first(env, name) ==
    IF get_func(env, name) # None
    THEN [kind |-> "func", func |-> get_func(env, name)[1]]
    ELSE IF get_builtin(env, name) # None
    THEN [kind |-> "builtin", f |-> get_builtin(env, name)[1]]
    ELSE IF get_class(env, name) # None
    THEN [kind |-> "class", class |-> get_class(env, name)[1]]
    ELSE [kind |-> "none"]

\* eval_expr, Expr::Call: what the name of a bare call resolves to.
resolve_call(env, name) ==
    IF get_class(env, name) # None
    THEN [kind |-> "class", class |-> get_class(env, name)[1]]
    ELSE IF get_builtin(env, name) # None
    THEN [kind |-> "builtin", f |-> get_builtin(env, name)[1]]
    ELSE IF get_func(env, name) # None
    THEN [kind |-> "func", func |-> get_func(env, name)[1]]
    ELSE [kind |-> "none"]

\* eval_expr, Expr::Call, after the arguments are evaluated.
call_named(name, arg_vals, st) ==
    LET target == resolve_call(st.env, name)
    IN  CASE target.kind = "class" -> call_as_class(target.class, arg_vals, st)
          [] target.kind = "builtin" -> call_builtin(target.f, arg_vals, st)
          [] target.kind = "func" -> call_user(name, target.func, arg_vals, st)
          [] OTHER -> Err(st, "Unknown function or class '" \o name \o "'")

\* A method call that binds the first parameter to a copy of the receiver: an
\* instance of the same class with a field map of its own.
call_method_on_copy(obj_val, method, arg_vals, st) ==
    LET method_val == get_attr(obj_val, method, st)
    IN  IF method_val = None THEN Err(st, "Method '" \o method \o "' not found")
        ELSE IF method_val[1].t # "Method" THEN Err(st, "Not a method")
        ELSE LET func == method_val[1].func
                 copy == IF obj_val.t = "Instance"
                         THEN Instance(obj_val.class, Len(st.maps) + 1)
                         ELSE obj_val
                 s1 == IF obj_val.t = "Instance"
                       THEN [st EXCEPT !.maps = Append(@, st.maps[obj_val.ifields])]
                       ELSE st
                 call_args == <<copy>> \o arg_vals
             IN  IF Len(call_args) # Len(func.params)
                 THEN Err(st, "Method '" \o method \o "' expects "
                              \o ToString(Len(func.params)) \o " arguments, got "
                              \o ToString(Len(call_args)))
                 ELSE call_result(invoke(func, call_args, s1))

\* eval_expr, Expr::CallMethod, after the receiver and the arguments are evaluated.
call_method(obj_val, method, arg_vals, st) ==
    LET method_val == get_attr(obj_val, method, st)
    IN  IF method_val = None THEN Err(st, "Method '" \o method \o "' not found")
        ELSE IF method_val[1].t # "Method" THEN Err(st, "Not a method")
        ELSE LET func == method_val[1].func
                 call_args == <<obj_val>> \o arg_vals
             IN  IF Len(call_args) # Len(func.params)
                 THEN Err(st, "Method '" \o method \o "' expects "
                              \o ToString(Len(func.params)) \o " arguments, got "
                              \o ToString(Len(call_args)))
                 ELSE call_result(invoke(func, call_args, st))

\* eval_expr, Expr::Index, on the two operand values.
index_value(arr_val, idx_val, st) ==
    CASE arr_val.t = "Array" /\ idx_val.t = "Number" ->
           LET arr == st.arrays[arr_val.a]
               i == as_usize(idx_val)
           IN  IF i < Len(arr) THEN Ok(st, arr[i + 1]) ELSE Err(st, "Index out of bounds")
      [] arr_val.t = "String" /\ idx_val.t = "Number" ->
           LET i == as_usize(idx_val)
           IN  IF i >= str_len(arr_val.s) THEN Err(st, "String index out of bounds")
               ELSE IF i < Len(arr_val.s) THEN Ok(st, String(SubSeq(arr_val.s, i + 1, i + 1)))
               ELSE Panic(st, "called Option::unwrap() on a None value")
      [] OTHER -> Err(st, "Invalid index access")

\* The body of eval_expr: `match expr`.
expr_future(expr, st) ==
    CASE expr.k = "Number" -> Ok(st, Ratio(expr.num, expr.den))
      [] expr.k = "String" -> Ok(st, String(expr.s))
      [] expr.k = "Boolean" -> Ok(st, Boolean(expr.b))
      [] expr.k = "Null" -> Ok(st, Null)
      [] expr.k = "Variable" ->
           IF get_var(st.env, expr.name) # None THEN Ok(st, get_var(st.env, expr.name)[1])
           ELSE Err(st, "Variable '" \o expr.name \o "' not defined")
      [] expr.k = "BinaryOp" ->
           LET l == eval_expr(expr.left, st)
           IN  IF l.k # "ok" THEN l
               ELSE LET r == eval_expr(expr.right, l.st)
                    IN  IF r.k # "ok" THEN r ELSE binary_op(expr.op, l.val, r.val, r.st)
      [] expr.k = "UnaryOp" ->
           LET v == eval_expr(expr.expr, st)
           IN  IF v.k # "ok" THEN v
               ELSE IF expr.op = "Not" THEN Ok(v.st, Boolean(~as_bool(v.val, v.st)))
               ELSE IF v.val.t = "Number" THEN Ok(v.st, RatNeg(v.val))
               ELSE Err(v.st, "Unary minus applied to non-number")
      [] expr.k = "Call" ->
           LET a == eval_args(expr.args, st)
           IN  IF a.k # "ok" THEN a ELSE call_named(expr.name, a.vals, a.st)
      [] expr.k = "Index" ->
           LET a == eval_expr(expr.array, st)
           IN  IF a.k # "ok" THEN a
               ELSE LET i == eval_expr(expr.index, a.st)
                    IN  IF i.k # "ok" THEN i ELSE index_value(a.val, i.val, i.st)
      [] expr.k = "GetAttr" ->
           LET o == eval_expr(expr.object, st)
           IN  IF o.k # "ok" THEN o
               ELSE IF get_attr(o.val, expr.attr, o.st) # None
               THEN Ok(o.st, get_attr(o.val, expr.attr, o.st)[1])
               ELSE Err(o.st, "Attribute '" \o expr.attr \o "' not found")
      [] expr.k = "SetAttr" ->
           LET o == eval_expr(expr.object, st)
           IN  IF o.k # "ok" THEN o
               ELSE LET v == eval_expr(expr.value, o.st)
                    IN  IF v.k # "ok" THEN v ELSE set_attr(o.val, expr.attr, v.val, v.st)
      [] expr.k = "CallMethod" ->
           LET o == eval_expr(expr.object, st)
           IN  IF o.k # "ok" THEN o
               ELSE LET a == eval_args(expr.args, o.st)
                    IN  IF a.k # "ok" THEN a
                        ELSE call_method(o.val, expr.method, a.vals, a.st)
      [] OTHER -> Err(st, "super not implemented yet")

\* A block that runs every statement: a returned value is kept and the
\* statements after it run all the same.
block_to_end(stmts, st) ==
    IF stmts = <<>> THEN NoValue(st)
    ELSE LET r == eval_stmt(stmts[1], st)
         IN  IF r.k = "none" THEN eval_block(Tail(stmts), r.st)
             ELSE IF r.k = "some"
             THEN LET rest == eval_block(Tail(stmts), r.st)
                  IN  IF rest.k = "none" THEN Returned(rest.st, r.val) ELSE rest
             ELSE r

\* The body of eval_block: `for stmt in stmts`, stopping at the first result.
block_future(stmts, st) ==
    IF stmts = <<>> THEN NoValue(st)
    ELSE LET r == eval_stmt(stmts[1], st)
         IN  IF r.k = "none" THEN eval_block(Tail(stmts), r.st) ELSE r

\* eval_stmt, Stmt::If: the elif branches in order, then the else branch.
eval_elifs(elif_branches, else_branch, st) ==
    IF elif_branches = <<>>
    THEN IF else_branch # None THEN eval_block(else_branch[1], st) ELSE NoValue(st)
    ELSE LET c == eval_expr(elif_branches[1][1], st)
         IN  IF c.k # "ok" THEN c
             ELSE IF as_bool(c.val, c.st) THEN eval_block(elif_branches[1][2], c.st)
             ELSE eval_elifs(Tail(elif_branches), else_branch, c.st)

eval_if(stmt, st) ==
    LET c == eval_expr(stmt.condition, st)
    IN  IF c.k # "ok" THEN c
        ELSE IF as_bool(c.val, c.st) THEN eval_block(stmt.then_branch, c.st)
        ELSE eval_elifs(stmt.elif_branches, stmt.else_branch, c.st)

\* eval_stmt, Stmt::While
eval_while(stmt, st) ==
    IF st.steps >= MaxSteps THEN OutOfFuel(st)
    ELSE LET c == eval_expr(stmt.condition, Tick(st))
         IN  IF c.k # "ok" THEN c
             ELSE IF ~as_bool(c.val, c.st) THEN NoValue(c.st)
             ELSE LET b == eval_block(stmt.body, c.st)
                  IN  IF b.k = "none" THEN eval_while(stmt, b.st) ELSE b

\* A numeric for that goes on from the value the body left in the variable.
for_loop_from_variable(var, i, end_num, body, st) ==
    IF i > end_num THEN NoValue(st)
    ELSE IF st.steps >= MaxSteps THEN OutOfFuel(st)
    ELSE LET s1 == [Tick(st) EXCEPT !.env = set_var(@, var, Number(i))]
             b == eval_block(body, s1)
         IN  IF b.k = "none"
             THEN for_loop(var, as_i64(get_var(b.st.env, var)[1]) + 1, end_num, body, b.st)
             ELSE b

\* eval_stmt, Stmt::For: `for i in start_num..=end_num`
for_loop(var, i, end_num, body, st) ==
    IF i > end_num THEN NoValue(st)
    ELSE IF st.steps >= MaxSteps THEN OutOfFuel(st)
    ELSE LET s1 == [Tick(st) EXCEPT !.env = set_var(@, var, Number(i))]
             b == eval_block(body, s1)
         IN  IF b.k = "none" THEN for_loop(var, i + 1, end_num, body, b.st) ELSE b

eval_for(stmt, st) ==
    LET s == eval_expr(stmt.start, st)
    IN  IF s.k # "ok" THEN s
        ELSE LET e == eval_expr(stmt.end, s.st)
             IN  IF e.k # "ok" THEN e
                 ELSE IF s.val.t # "Number" THEN Err(e.st, "start value must be number")
                 ELSE IF e.val.t # "Number" THEN Err(e.st, "end value must be number")
                 ELSE for_loop(stmt.var, as_i64(s.val), as_i64(e.val), stmt.body, e.st)

\* A for-in that walks the array itself: what the array at arr_rc holds now.
for_in_live(arr, arr_rc, st) == st.arrays[arr_rc]

\* eval_stmt, Stmt::ForIn: `let arr = arr_rc.borrow().clone(); for item in arr`.
\* for_in_items is the sequence the loop walks: the copy taken at loop entry,
\* whatever the array at arr_rc holds by now.
for_in_items(arr, arr_rc, st) == arr

for_in_loop(var, arr, arr_rc, i, body, st) ==
    IF i > Len(for_in_items(arr, arr_rc, st)) THEN NoValue(st)
    ELSE IF st.steps >= MaxSteps THEN OutOfFuel(st)
    ELSE LET item == for_in_items(arr, arr_rc, st)[i]
             s1 == [Tick(st) EXCEPT !.env = set_var(@, var, item)]
             b == eval_block(body, s1)
         IN  IF b.k = "none" THEN for_in_loop(var, arr, arr_rc, i + 1, body, b.st) ELSE b

eval_for_in(stmt, st) ==
    LET a == eval_expr(stmt.array, st)
    IN  IF a.k # "ok" THEN a
        ELSE IF a.val.t = "Array"
        THEN for_in_loop(stmt.var, a.st.arrays[a.val.a], a.val.a, 1, stmt.body, a.st)
        ELSE Err(a.st, "for-in: right side must be array")

\* eval_stmt, Stmt::Print: print!(" ") between arguments, print!("{}", val).
Write(st, text) == [st EXCEPT !.out = @ \o text]

print_args(exprs, first, st) ==
    IF exprs = <<>> THEN NoValue(st)
    ELSE LET s1 == IF first THEN st ELSE Write(st, " ")
             v == eval_expr(exprs[1], s1)
         IN  IF v.k # "ok" THEN v
             ELSE print_args(Tail(exprs), FALSE, Write(v.st, fmt(v.val, v.st)))

eval_print(stmt, st) ==
    LET r == print_args(stmt.exprs, TRUE, st)
    IN  IF r.k # "none" THEN r ELSE NoValue(Write(r.st, "\n"))

\* A try/catch that restores nothing: the catch body goes on in the scope the
\* failed try body left.
keep_env(env_snapshot, st) == st

\* A try/catch that gives back the variables of try entry and nothing else.
restore_variables(env_snapshot, st) == [st EXCEPT !.env.vars = env_snapshot.vars]

\* eval_stmt, Stmt::TryCatch: `*env = env_snapshot`
restore_env(env_snapshot, st) == [st EXCEPT !.env = env_snapshot]

\* The history entry of a caught error.
NoteCatch(st, entry, failed) ==
    [st EXCEPT !.catches = Append(@,
        [entry |-> Bindings(entry.env), entry_arrays |-> entry.arrays,
         failed |-> Bindings(failed.env), failed_arrays |-> failed.arrays,
         catch |-> Bindings(st.env), catch_arrays |-> st.arrays])]

\* A try/catch whose snapshot is deep: the arrays and field maps go back to what
\* they held at try entry as well.
eval_try_catch_deep(stmt, st) ==
    LET r == eval_block(stmt.try_body, st)
    IN  IF r.k = "err"
        THEN eval_block(stmt.catch_body,
                        NoteCatch([r.st EXCEPT !.env = st.env, !.arrays = st.arrays,
                                               !.maps = st.maps], st, r.st))
        ELSE r

eval_try_catch(stmt, st) ==
    LET env_snapshot == st.env
        r == eval_block(stmt.try_body, st)
    IN  IF r.k = "err"
        THEN eval_block(stmt.catch_body, NoteCatch(restore_env(env_snapshot, r.st), st, r.st))
        ELSE r

\* eval_stmt, Stmt::ClassDef: the static fields, evaluated in order.
class_fields(fields, field_map, st) ==
    IF fields = <<>> THEN [k |-> "ok", st |-> st, field_map |-> field_map]
    ELSE LET v == eval_expr(fields[1][2], st)
         IN  IF v.k # "ok" THEN v
             ELSE class_fields(Tail(fields), Put(field_map, fields[1][1], v.val), v.st)

\* `methods.iter().map(|m| (m.name.clone(), Rc::new(m.clone()))).collect()`
method_map(methods) ==
    [n \in {methods[i].name : i \in DOMAIN methods} |->
        methods[CHOOSE i \in DOMAIN methods :
                  /\ methods[i].name = n
                  /\ \A j \in DOMAIN methods : methods[j].name = n => j <= i]]

eval_class_def(stmt, st) ==
    LET f == class_fields(stmt.fields, EmptyMap, st)
    IN  IF f.k # "ok" THEN f
        ELSE IF stmt.parent # None /\ get_class(f.st.env, stmt.parent[1]) = None
        THEN Err(f.st, "Parent class '" \o stmt.parent[1] \o "' not found")
        ELSE LET parent_val == IF stmt.parent # None
                               THEN Some(get_class(f.st.env, stmt.parent[1])[1])
                               ELSE None
                 class_value == Class(stmt.name, parent_val, Len(f.st.maps) + 1,
                                      method_map(stmt.methods))
             IN  NoValue([f.st EXCEPT !.maps = Append(@, f.field_map),
                                      !.env = define_class(@, stmt.name, class_value)])

\* An assignment that copies: an array value is stored as a new array holding
\* the same elements.
assign_copy(name, val, st) ==
    IF val.t = "Array"
    THEN [st EXCEPT !.arrays = Append(@, st.arrays[val.a]),
                    !.env = set_var(@, name, Array(Len(st.arrays) + 1))]
    ELSE [st EXCEPT !.env = set_var(@, name, val)]

\* eval_stmt, Stmt::Assign: `env.set_var(name.clone(), val)`; the value of an
\* array is the Rc, so the name is bound to the array the value refers to.
assign(name, val, st) == [st EXCEPT !.env = set_var(@, name, val)]

\* The body of eval_stmt: `match stmt`.
stmt_future(stmt, st) ==
    IF st.steps >= MaxSteps THEN OutOfFuel(st)
    ELSE LET s0 == Tick(st)
         IN CASE stmt.k = "Expr" ->
                   LET r == eval_expr(stmt.expr, s0)
                   IN  IF r.k # "ok" THEN r ELSE NoValue(r.st)
              [] stmt.k = "Assign" ->
                   LET r == eval_expr(stmt.value, s0)
                   IN  IF r.k # "ok" THEN r ELSE NoValue(assign(stmt.name, r.val, r.st))
              [] stmt.k = "If" -> eval_if(stmt, s0)
              [] stmt.k = "While" -> eval_while(stmt, s0)
              [] stmt.k = "For" -> eval_for(stmt, s0)
              [] stmt.k = "ForIn" -> eval_for_in(stmt, s0)
              [] stmt.k = "Return" ->
                   LET r == eval_expr(stmt.expr, s0)
                   IN  IF r.k # "ok" THEN r ELSE Returned(r.st, r.val)
              [] stmt.k = "FunctionDef" ->
                   NoValue([s0 EXCEPT !.env = define_func(@, stmt.name,
                       UserFunction(stmt.name, stmt.params, stmt.body, stmt.is_async))])
              [] stmt.k = "Print" -> eval_print(stmt, s0)
              [] stmt.k = "TryCatch" -> eval_try_catch(stmt, s0)
              [] stmt.k = "ClassDef" -> eval_class_def(stmt, s0)
              [] OTHER -> Err(s0, "statement outside the model")

await(f, node, st) ==
    CASE f = "eval_block" -> block_future(node, st)
      [] f = "eval_stmt" -> stmt_future(node, st)
      [] OTHER -> expr_future(node, st)

(***************************************************************************)
(* The scripts the model runs.  An input names a script of a family by its *)
(* parameters; Source(input) is the text of the script, line by line.      *)
(***************************************************************************)
Indent(lines) == [i \in DOMAIN lines |-> "    " \o lines[i]]

\* "1, 2, .., n"
RECURSIVE Numbers(_)
Numbers(n) ==
    IF n = 0 THEN "" ELSE IF n = 1 THEN "1" ELSE Numbers(n - 1) \o ", " \o ToString(n)

\* Family "try": a try body that assigns, mutates the array a and then fails.
MutLine(mut) ==
    CASE mut = "push" -> <<"push(a, 9)">>
      [] mut = "pop" -> <<"pop(a)">>
      [] mut = "set" -> <<"set(a, 0, 9)">>
      [] OTHER -> <<>>

ErrLine(err) ==
    CASE err = "div" -> <<"z = 1 / 0">>
      [] err = "var" -> <<"z = nope">>
      [] err = "call" -> <<"boom()">>
      [] err = "pop" -> <<"pop(array())">>
      [] OTHER -> <<>>

TryLines(in) ==
    <<"try:">>
    \o Indent(<<"x = 2", "y = 3">> \o MutLine(in.mut) \o ErrLine(in.err) \o <<"print(\"D\")">>)
    \o <<"catch:">>
    \o Indent(<<"print(x)", "print(a)">>)
    \o <<"print(a)", "print(y)">>

TrySource(in) ==
    <<"x = 1", "a = array(1, 2)", "function boom():", "    q = 1 / 0">>
    \o (IF in.scope = "top" THEN TryLines(in)
        ELSE <<"function t(x):">> \o Indent(TryLines(in)) \o <<"t(5)", "print(x)">>)

TryInputs ==
    [fam : {"try"}, scope : {"top", "func"}, mut : {"none", "push", "pop", "set"},
     err : {"none", "div", "var", "call", "pop"}]

\* Family "class": scenario 4 of the specification and its neighbours.
ClassSource(in) ==
    <<"class P:",
      "    function __init__(self, n):",
      IF in.init = "field" THEN "        self.n = n" ELSE "        m = n",
      "    function get(self):",
      IF in.get = "field" THEN "        return self.n" ELSE "        return 7",
      "p = P(7)",
      "print(p.get())">>

ClassInputs == [fam : {"class"}, init : {"field", "local"}, get : {"field", "const"}]

\* Family "alias": the array a is bound to a second name b, by assignment or as
\* the argument of a call; ops[i] is applied through b at odd i and through a
\* at even i when first = "b", the other way round when first = "a".
AliasName(in, i) ==
    IF (i % 2 = 1) = (in.first = "b") THEN "b" ELSE "a"

AliasOpLine(op, name) ==
    CASE op = "push" -> "push(" \o name \o ", 9)"
      [] op = "pop" -> "pop(" \o name \o ")"
      [] OTHER -> "set(" \o name \o ", 0, 7)"

AliasBody(in) ==
    [i \in DOMAIN in.ops |-> AliasOpLine(in.ops[i], AliasName(in, i))]
    \o <<"print(length(a), length(b))", "print(a)", "print(b)">>

AliasSource(in) ==
    <<"a = array(1, 2, 3)">>
    \o (IF in.via = "assign" THEN <<"b = a">> \o AliasBody(in)
        ELSE <<"function f(b):">> \o Indent(AliasBody(in)) \o <<"f(a)", "print(a)">>)

OpSeqs == UNION {[1..n -> {"push", "pop", "set"}] : n \in 0..MaxOps}

AliasInputs == [fam : {"alias"}, via : {"assign", "param"}, first : {"a", "b"}, ops : OpSeqs]

\* Family "ret": a function whose `return v + 1` lies inside the control
\* structure outer, which lies inside the control structure inner ("none": no
\* structure).  Each loop prints I when an iteration starts; every statement
\* that follows the return in the function prints D.
Dead == <<"print(\"D\")">>

Wrapped(w, d, body) ==
    CASE w = "if" -> <<"if v > 0:">> \o Indent(body)
      [] w = "elif" -> <<"if v < 0:">> \o Indent(Dead) \o <<"elif v > 0:">> \o Indent(body)
      [] w = "else" -> <<"if v < 0:">> \o Indent(Dead) \o <<"else:">> \o Indent(body)
      [] w = "while" ->
           <<"i" \o d \o " = 0", "while i" \o d \o " < 3:">>
           \o Indent(<<"i" \o d \o " = i" \o d \o " + 1", "print(\"I\")">> \o body)
      [] w = "for" -> <<"for k" \o d \o " = 1, 3 do">> \o Indent(<<"print(\"I\")">> \o body)
      [] w = "forin" ->
           <<"for e" \o d \o " in array(1, 2, 3):">> \o Indent(<<"print(\"I\")">> \o body)
      [] w = "try" -> <<"try:">> \o Indent(body) \o <<"catch:">> \o Indent(Dead)
      [] w = "catch" -> <<"try:">> \o Indent(<<"z = 1 / 0">>) \o <<"catch:">> \o Indent(body)
      [] OTHER -> body

RetBody(in) ==
    Wrapped(in.outer, "1", Wrapped(in.inner, "2", <<"return v + 1">> \o Dead) \o Dead) \o Dead

RetSource(in) ==
    <<"function f(v):">> \o Indent(RetBody(in)) \o <<"r = f(7)", "print(r)">>

Structures == {"if", "elif", "else", "while", "for", "forin", "try", "catch"}

RetInputs ==
    {in \in [fam : {"ret"}, outer : Structures \cup {"none"}, inner : Structures \cup {"none"}] :
        in.outer = "none" => in.inner = "none"}

\* Family "err": a division by zero, depth calls below the statement that
\* starts it (0: the statement itself), the first call being a function or
\* a method call; shape places it with respect to try/catch statements.
\* The script prints A before, F right before the failure, C in the catch
\* body of the inner try, N after the inner try, O in the catch body of the
\* outer try, E after the outer try, and S or M where the text says so.
Say(mark) == "print(\"" \o mark \o "\")"

Failure == <<Say("F"), "z = 1 / 0", Say("S")>>

\* The functions g1 .. gn: g1 fails, each other one calls the one before it.
RECURSIVE ErrFunctions(_)
ErrFunctions(n) ==
    IF n = 0 THEN <<>>
    ELSE ErrFunctions(n - 1)
         \o <<"function g" \o ToString(n) \o "():">>
         \o Indent(IF n = 1 THEN Failure ELSE <<"g" \o ToString(n - 1) \o "()", Say("S")>>)

\* The class K whose method m is the first call of the chain.
ErrClass(in) ==
    <<"class K:", "    function m(self):">>
    \o Indent(Indent(IF in.depth = 1 THEN Failure
                     ELSE <<"g" \o ToString(in.depth - 1) \o "()", Say("S")>>))
    \o <<"k = K()">>

ErrPrelude(in) ==
    IF in.depth = 0 THEN <<>>
    ELSE IF in.via = "func" THEN ErrFunctions(in.depth)
    ELSE ErrFunctions(in.depth - 1) \o ErrClass(in)

\* The statements that fail.
Fail(in) ==
    IF in.depth = 0 THEN Failure
    ELSE IF in.via = "func" THEN <<"g" \o ToString(in.depth) \o "()", Say("S")>>
    ELSE <<"r = k.m()", Say("S")>>

Try(body, handler) == <<"try:">> \o Indent(body) \o <<"catch:">> \o Indent(handler)

ErrScript(in) ==
    CASE in.shape = "none" -> <<Say("A")>> \o Fail(in)
      [] in.shape = "flat" -> <<Say("A")>> \o Try(Fail(in), <<Say("C")>>) \o <<Say("N")>>
      [] in.shape = "nested" ->
           Try(<<Say("A")>> \o Try(Fail(in), <<Say("C")>>) \o <<Say("N")>>, <<Say("O")>>)
           \o <<Say("E")>>
      [] in.shape = "callee" ->
           <<"function h():">> \o Indent(Try(Fail(in), <<Say("C")>>) \o <<Say("N")>>)
           \o Try(<<Say("A"), "h()", Say("M")>>, <<Say("O")>>) \o <<Say("E")>>
      [] in.shape = "incatch" ->
           Try(<<Say("A")>> \o Try(Fail(in), <<Say("C")>> \o Fail(in)) \o <<Say("S")>>,
               <<Say("O")>>)
           \o <<Say("E")>>
      [] OTHER ->
           Try(<<Say("A")>> \o Try(<<Say("T")>>, <<Say("C")>>) \o Fail(in), <<Say("O")>>)
           \o <<Say("E")>>

ErrSource(in) == ErrPrelude(in) \o ErrScript(in)

ErrInputs ==
    {in \in [fam : {"err"}, shape : {"none", "flat", "nested", "callee", "incatch", "outer"},
             depth : 0..MaxCalls, via : {"func", "method"}] :
        in.depth = 0 => in.via = "func"}

\* Family "scope": the caller binds x and y; the callee, with the parameter p
\* bound to the value of x, gives the name target the value 2, by an
\* assignment, as the variable of a numeric for or as the variable of a
\* for-in, and prints it.  The caller then prints x and y and reads w.
ScopeCallee(in) ==
    (CASE in.how = "assign" -> <<in.target \o " = 2">>
       [] in.how = "for" -> <<"for " \o in.target \o " = 2, 2 do", "    q = 0">>
       [] OTHER -> <<"for " \o in.target \o " in array(2):", "    q = 0">>)
    \o <<"print(" \o in.target \o ")", "return 0">>

ScopeCall(in) ==
    CASE in.call = "stmt" -> <<"function f(p):">> \o Indent(ScopeCallee(in)) \o <<"f(x)">>
      [] in.call = "value" -> <<"function f(p):">> \o Indent(ScopeCallee(in)) \o <<"r = f(x)">>
      [] in.call = "nested" ->
           <<"function g(p):">> \o Indent(ScopeCallee(in))
           \o <<"function f(p):", "    r = g(p)", "    return r", "r = f(x)">>
      [] in.call = "method" ->
           <<"class K:", "    function m(self, p):">> \o Indent(Indent(ScopeCallee(in)))
           \o <<"k = K()", "r = k.m(x)">>
      [] OTHER ->
           <<"class K:", "    function __init__(self, p):">> \o Indent(Indent(ScopeCallee(in)))
           \o <<"k = K(x)">>

ScopeSource(in) == <<"x = 1", "y = 5">> \o ScopeCall(in) \o <<"print(x, y)", "print(w)">>

ScopeInputs ==
    [fam : {"scope"}, call : {"stmt", "value", "nested", "method", "init"},
     how : {"assign", "for", "forin"}, target : {"x", "w", "p"}]

\* Family "meth": the method m of the class K declares decl parameters (self,
\* a1, a2, ..) and is called on the instance k with args arguments (10, 20,
\* ..).  The body prints B, whether its first parameter is k, and its other
\* parameters, binds x and returns its last parameter.
RECURSIVE Names(_, _)
Names(prefix, n) ==
    IF n = 0 THEN ""
    ELSE IF n = 1 THEN prefix \o "1"
    ELSE Names(prefix, n - 1) \o ", " \o prefix \o ToString(n)

RECURSIVE Tens(_)
Tens(n) ==
    IF n = 0 THEN "" ELSE IF n = 1 THEN "10" ELSE Tens(n - 1) \o ", " \o ToString(10 * n)

MethParams(decl) ==
    IF decl = 0 THEN "" ELSE IF decl = 1 THEN "self" ELSE "self, " \o Names("a", decl - 1)

MethBody(decl) ==
    <<Say("B")>>
    \o (IF decl >= 1 THEN <<"print(self == k)">> ELSE <<>>)
    \o (IF decl >= 2 THEN <<"print(" \o Names("a", decl - 1) \o ")">> ELSE <<>>)
    \o <<"x = 2">>
    \o (IF decl >= 2 THEN <<"return a" \o ToString(decl - 1)>> ELSE <<"return 0">>)

MethSource(in) ==
    <<"x = 1", "class K:", "    function m(" \o MethParams(in.decl) \o "):">>
    \o Indent(Indent(MethBody(in.decl)))
    \o <<"k = K()", "r = k.m(" \o Tens(in.args) \o ")", "print(r)", "print(x)">>

MethInputs == [fam : {"meth"}, decl : 0..(MaxArgs + 1), args : 0..MaxArgs]

\* Family "resolve": the bare call name(array(1, 2)), at the top level or in
\* a function, with a class and a user function of that name defined or not,
\* in either order; "length" is also the name of a builtin, "foo" is not.
ResolveFunction(in) ==
    <<"function " \o in.name \o "(v):", "    print(\"U\")", "    return 100">>

ResolveClass(in) ==
    <<"class " \o in.name \o ":", "    function __init__(self, v):", "        print(\"K\")">>

ResolveDefs(in) ==
    CASE in.defs = "class" -> ResolveClass(in)
      [] in.defs = "func" -> ResolveFunction(in)
      [] in.defs = "class, func" -> ResolveClass(in) \o ResolveFunction(in)
      [] in.defs = "func, class" -> ResolveFunction(in) \o ResolveClass(in)
      [] OTHER -> <<>>

ResolveCall(in) == <<"r = " \o in.name \o "(array(1, 2))", "print(r)">>

ResolveSource(in) ==
    ResolveDefs(in)
    \o (IF in.where = "top" THEN ResolveCall(in)
        ELSE <<"function w():">> \o Indent(ResolveCall(in)) \o <<"w()">>)

ResolveInputs ==
    [fam : {"resolve"}, name : {"length", "foo"}, where : {"top", "func"},
     defs : {"none", "class", "func", "class, func", "func, class"}]

\* Family "forin": a for-in loop over the array a of 1 .. n whose body prints
\* the loop variable and then pushes to a, pops from a, overwrites the last
\* element of a, binds the name a to an empty array, or leaves a alone.
ForInMutation(mut) ==
    CASE mut = "push" -> <<"push(a, v + 10)">>
      [] mut = "pop" -> <<"pop(a)">>
      [] mut = "set" -> <<"set(a, length(a) - 1, 0)">>
      [] mut = "rebind" -> <<"a = array()">>
      [] OTHER -> <<>>

ForInSource(in) ==
    <<"a = array(" \o Numbers(in.n) \o ")", "for v in a:">>
    \o Indent(<<"print(v)">> \o ForInMutation(in.mut))
    \o <<"print(a)">>

ForInInputs ==
    [fam : {"forin"}, n : 0..MaxLen, mut : {"none", "push", "pop", "set", "rebind"}]

\* Family "mem": the caller writes byte 3 and register r; the callee prints
\* them, writes bytes 3 and 4 and registers r and s, and prints again; the
\* caller then prints bytes 3 and 4 and register r, and reads register s.
MemShow == "print(mem_read(3), mem_read(4), get_reg(\"r\"))"

MemCallee ==
    <<MemShow, "mem_write(3, 9)", "mem_write(4, 1)", "set_reg(\"r\", 6)",
      "set_reg(\"s\", 1)", MemShow, "return 0">>

MemCall(in) ==
    CASE in.call = "stmt" -> <<"function f():">> \o Indent(MemCallee) \o <<"f()">>
      [] in.call = "value" -> <<"function f():">> \o Indent(MemCallee) \o <<"r = f()">>
      [] in.call = "nested" ->
           <<"function g():">> \o Indent(MemCallee)
           \o <<"function f():", "    r = g()", "    " \o MemShow, "    return r", "r = f()">>
      [] in.call = "method" ->
           <<"class K:", "    function m(self):">> \o Indent(Indent(MemCallee))
           \o <<"k = K()", "r = k.m()">>
      [] OTHER ->
           <<"class K:", "    function __init__(self):">> \o Indent(Indent(MemCallee))
           \o <<"k = K()">>

MemSource(in) ==
    <<"mem_write(3, 7)", "set_reg(\"r\", 5)">> \o MemCall(in)
    \o <<MemShow, "print(get_reg(\"s\"))">>

MemInputs == [fam : {"mem"}, call : {"stmt", "value", "nested", "method", "init"}]

\* Family "arith": `z = a / b` or `z = a % b` and a print of z, inside a try
\* whose catch body prints C, or at the top level.
ArithLines(in) == <<"z = " \o in.a \o " " \o in.op \o " " \o in.b, "print(z)">>

ArithSource(in) ==
    IF in.guard = "try" THEN Try(ArithLines(in), <<Say("C")>>) ELSE ArithLines(in)

ArithInputs ==
    [fam : {"arith"}, op : {"/", "%"}, a : {"5", "0"}, b : {"0", "2"}, guard : {"try", "bare"}]

\* Family "index": one access to the array a of three elements or to the
\* string s of three characters with the index or bound i, inside a try whose
\* catch body prints C; the array is printed afterwards.
IndexAccess(in) ==
    CASE in.access = "index" -> "print(a[" \o in.i \o "])"
      [] in.access = "get" -> "print(get(a, " \o in.i \o "))"
      [] in.access = "set" -> "set(a, " \o in.i \o ", 9)"
      [] in.access = "slice from" -> "print(slice(a, " \o in.i \o ", 3))"
      [] in.access = "slice to" -> "print(slice(a, 0, " \o in.i \o "))"
      [] OTHER -> "print(s[" \o in.i \o "])"

IndexSource(in) ==
    <<"a = array(1, 2, 3)", "s = \"abc\"">>
    \o Try(<<IndexAccess(in)>>, <<Say("C")>>)
    \o <<"print(a)">>

IndexInputs ==
    [fam : {"index"}, access : {"index", "get", "set", "slice from", "slice to", "string"},
     i : {"-1", "0 - 2", "1", "3", "4"}]

\* Family "str": the character at index i of the string s, inside a try whose
\* catch body prints C.
StrSource(in) ==
    <<"s = \"" \o in.s \o "\"">> \o Try(<<"print(s[" \o in.i \o "])">>, <<Say("C")>>)

StrInputs == [fam : {"str"}, s : {"", "abc", "~", "a~c"}, i : {"0", "1", "2", "3", "4"}]

\* Family "attr": the class B, whose parent is the class A, and an instance o
\* of B; the name x is a static field and/or a method of B and/or of A; the
\* script reads o.x or calls o.x().
AttrMembers(static, method, mark) ==
    (IF static THEN <<"x = \"" \o mark \o "S\"">> ELSE <<>>)
    \o (IF method THEN <<"function x(self):", "    return \"" \o mark \o "M\"">> ELSE <<>>)

AttrSource(in) ==
    <<"class A:", "    y = 0">> \o Indent(AttrMembers(in.pstatic, in.pmethod, "P"))
    \o <<"class B(A):", "    y = 1">> \o Indent(AttrMembers(in.static, in.method, ""))
    \o <<"o = B()", IF in.use = "get" THEN "r = o.x" ELSE "r = o.x()", "print(r)">>

AttrInputs ==
    [fam : {"attr"}, static : BOOLEAN, method : BOOLEAN, pstatic : BOOLEAN,
     pmethod : BOOLEAN, use : {"get", "call"}]

\* Family "arity": the function f declares decl parameters (a1, a2, ..) and is
\* called with args arguments (10, 20, ..).  The body prints B and then
\* returns its last parameter (0 without parameters), ends without a return,
\* or passes by a return in a branch not taken.
ArityEnd(in) ==
    CASE in.ret = "value" -> <<IF in.decl = 0 THEN "return 0" ELSE "return a" \o ToString(in.decl)>>
      [] in.ret = "skipped" -> <<"if 1 > 2:", "    return 5">>
      [] OTHER -> <<>>

AritySource(in) ==
    <<"function f(" \o Names("a", in.decl) \o "):">>
    \o Indent(<<Say("B")>> \o ArityEnd(in))
    \o <<"r = f(" \o Tens(in.args) \o ")", "print(r)">>

ArityInputs ==
    [fam : {"arity"}, decl : 0..MaxArgs, args : 0..MaxArgs, ret : {"value", "none", "skipped"}]

\* Family "bad": a script the parser rejects; after good lines come first.
BadLines(what) ==
    CASE what = "try, statement" -> <<"try:", "    x = 1", "print(x)">>
      [] what = "try, end" -> <<"try:", "    x = 1">>
      [] what = "parenthesis" -> <<"x = (1 + 2">>
      [] what = "trailing" -> <<"x = 1 2">>
      [] what = "token" -> <<"x = 1 + )">>
      [] what = "character" -> <<"x = 1 ? 2">>
      [] what = "statement" -> <<"x + 1">>
      [] what = "indentation" -> <<"x = 1", "    y = 2">>
      [] OTHER -> <<"if x:", "print(x)">>

RECURSIVE GoodLines(_)
GoodLines(n) == IF n = 0 THEN <<>> ELSE GoodLines(n - 1) \o <<"g" \o ToString(n) \o " = 0">>

BadSource(in) == GoodLines(in.after) \o BadLines(in.what)

BadInputs ==
    [fam : {"bad"}, after : 0..MaxLen,
     what : {"try, statement", "try, end", "parenthesis", "trailing", "token", "character",
             "statement", "indentation", "if"}]

\* Family "gap": a program that parses, with one empty or comment line put
\* between two of its lines; at is the number of lines before the new line.
GapLines(what) ==
    CASE what = "if" -> <<"x = 2", "if x == 1:", "    print(1)", "elif x == 2:",
                          "    print(2)", "else:", "    print(3)", "print(x)">>
      [] what = "try" -> <<"try:", "    x = 1", "catch:", "    x = 2", "print(x)">>
      [] what = "while" -> <<"i = 0", "while i < 2:", "    i = i + 1", "print(i)">>
      [] OTHER -> <<"function f(a):", "    return a", "print(f(1))">>

GapKinds == {"", "// c", "# c", "    // c"}

GapSource(in) ==
    SubSeq(GapLines(in.what), 1, in.at) \o <<in.line>>
    \o SubSeq(GapLines(in.what), in.at + 1, Len(GapLines(in.what)))

GapInputs ==
    UNION {[fam : {"gap"}, what : {what}, at : 1..(Len(GapLines(what)) - 1), line : GapKinds] :
           what \in {"if", "try", "while", "function"}}

\* Family "for": a numeric for from lo to hi whose body prints the loop
\* variable, counts the iteration and assigns to the loop variable or to a
\* variable of the bounds.  The bounds are the variables l and h, calls that
\* print "b" and return them, or l and h with a fraction.
ForBound(in, n) ==
    ToString(n) \o (IF in.bounds = "fractions" THEN ".5" ELSE "")

ForHeader(in) ==
    IF in.bounds = "calls" THEN "for i = b(l), b(h) do" ELSE "for i = l, h do"

ForMutation(in) ==
    CASE in.mut = "variable" -> <<"i = i + 5">>
      [] in.mut = "low" -> <<"l = l + 1">>
      [] in.mut = "high" -> <<"h = h + 1">>
      [] OTHER -> <<>>

ForSource(in) ==
    <<"function b(v):", "    print(\"b\")", "    return v",
      "l = " \o ForBound(in, in.lo), "h = " \o ForBound(in, in.hi), "n = 0", ForHeader(in)>>
    \o Indent(<<"print(i)", "n = n + 1">> \o ForMutation(in))
    \o <<"print(n)">>

ForInputs ==
    [fam : {"for"}, lo : 0..MaxLen, hi : 0..MaxLen,
     bounds : {"variables", "calls", "fractions"}, mut : {"none", "variable", "low", "high"}]

\* Family "eq": two operands compared with == and with !=.  a and b are
\* arrays built apart with equal elements and c is a second name of a; p and q
\* are instances built apart and r is a second name of p; s is the string "x"
\* and w is a NaN.  The class K is defined again after its instances are made.
EqOperands ==
    {"1", "2", "\"x\"", "\"y\"", "s", "true", "false", "null", "a", "b", "c", "p", "q", "r",
     "w"}

EqSource(in) ==
    <<"class K:", "    z = 0", "a = array(1, 2)", "b = array(1, 2)", "c = a", "p = K()",
      "q = K()", "r = p", "s = \"x\"", "w = 0 % 0", "class K:", "    z = 1", "class J:",
      "    z = 1",
      "print(" \o in.left \o " == " \o in.right \o ", " \o in.left \o " != " \o in.right \o ")">>

EqInputs == [fam : {"eq"}, left : EqOperands, right : EqOperands]

\* Family "logic": `l(left) op r(right)` with op one of and, or; l and r
\* print their name and return their argument.  The right operand "nope" is
\* a variable bound nowhere.
LogicOperands == {"true", "false", "0", "1", "\"\"", "\"x\"", "null", "array()", "array(1)"}

LogicRight(in) == IF in.right = "nope" THEN "nope" ELSE "r(" \o in.right \o ")"

LogicSource(in) ==
    <<"function l(v):", "    print(\"l\")", "    return v",
      "function r(v):", "    print(\"r\")", "    return v",
      "x = l(" \o in.left \o ") " \o in.op \o " " \o LogicRight(in),
      "print(x)">>

LogicInputs ==
    [fam : {"logic"}, op : {"and", "or"}, left : LogicOperands,
     right : LogicOperands \cup {"nope"}]

\* Family "heap": three blocks h1, h2, h3 are allocated and printed; after
\* the first one h1 is freed or poked, or a try body that allocates fails;
\* after the second one h1 or h2 is freed; at the end the block of number
\* target is poked, peeked or peeked as 32 bits inside a try.
HeapFirst(in) ==
    CASE in.first = "free" -> <<"free(h1)">>
      [] in.first = "poke" -> <<"poke(h1, 0, 7)">>
      [] in.first = "failed try" ->
           <<"try:", "    t = malloc(1)", "    print(t)", "    q = 1 / 0", "catch:",
             "    print(\"c\")">>
      [] OTHER -> <<>>

HeapSecond(in) ==
    CASE in.second = "free h1" -> <<"free(h1)">>
      [] in.second = "free h2" -> <<"free(h2)">>
      [] OTHER -> <<>>

HeapUse(in) ==
    CASE in.use = "poke" -> <<"poke(h" \o ToString(in.target) \o ", 0, 1)", "print(\"p\")">>
      [] in.use = "peek" -> <<"print(peek(h" \o ToString(in.target) \o ", 0))">>
      [] OTHER -> <<"print(peek32(h" \o ToString(in.target) \o ", 0))">>

HeapSource(in) ==
    <<"h1 = malloc(4)", "print(h1)">> \o HeapFirst(in)
    \o <<"h2 = malloc(4)", "print(h2)">> \o HeapSecond(in)
    \o <<"h3 = malloc(4)", "print(h3)", "try:">> \o Indent(HeapUse(in))
    \o <<"catch:", "    print(\"invalid\")">>

HeapInputs ==
    [fam : {"heap"}, first : {"none", "free", "poke", "failed try"},
     second : {"none", "free h1", "free h2"}, use : {"poke", "peek", "peek32"},
     target : 1..3]

\* Family "lit": one string literal, given by the text between its quotes,
\* printed after an assignment, as the argument of a print statement or as
\* the argument of a call statement.
LitBodies == {"ab", "a\\nb", "a\\tb", "a\\\\nb", "a\\\\b", "a\\\"b", "a\\qb", "a'b"}

LitSource(in) ==
    <<"function show(v):", "    print(v)">>
    \o (CASE in.where = "assignment" -> <<"s = \"" \o in.body \o "\"", "print(s)">>
          [] in.where = "print" -> <<"print(\"" \o in.body \o "\")">>
          [] OTHER -> <<"show(\"" \o in.body \o "\")">>)

LitInputs == [fam : {"lit"}, body : LitBodies, where : {"assignment", "print", "call"}]

\* Family "dent": a block opener whose first body line is indented by
\* first spaces and whose other body lines are indented by four.
DentOpener(in) ==
    CASE in.opener = "if" -> <<"if n == 0:">>
      [] in.opener = "while" -> <<"while n < 1:">>
      [] in.opener = "for" -> <<"for i = 1, 1 do">>
      [] in.opener = "for-in" -> <<"for e in array(1):">>
      [] OTHER -> <<"function f():">>

Spaces(n) == [i \in 1..n |-> " "]

RECURSIVE Glue(_)
Glue(chars) == IF chars = <<>> THEN "" ELSE chars[1] \o Glue(Tail(chars))

DentSource(in) ==
    <<"n = 0">> \o DentOpener(in)
    \o <<Glue(Spaces(in.first)) \o "print(\"first\")", "    print(\"second\")",
         "    n = n + 1">>
    \o (IF in.opener = "function" THEN <<"f()">> ELSE <<>>)
    \o <<"print(\"end\")">>

DentInputs ==
    [fam : {"dent"}, opener : {"if", "while", "for", "for-in", "function"},
     first : {4, 6, 8}]

\* Family "empty": a block-opening header with no body line after it; the
\* header is the last line of the script or a line of the same indentation
\* follows.
EmptyHeader(header) ==
    CASE header = "function" -> <<"function f():">>
      [] header = "if" -> <<"if 1 == 2:">>
      [] header = "elif" -> <<"if 1 == 2:", "    x = 1", "elif 1 == 3:">>
      [] header = "else" -> <<"if 1 == 2:", "    x = 1", "else:">>
      [] header = "while" -> <<"while 1 == 2:">>
      [] header = "for" -> <<"for i = 1, 2 do">>
      [] header = "for-in" -> <<"for e in array(1, 2):">>
      [] header = "try" -> <<"try:">>
      [] header = "catch" -> <<"try:", "    x = 1", "catch:">>
      [] OTHER -> <<"class K:">>

EmptySource(in) ==
    EmptyHeader(in.header) \o (IF in.tail = "statement" THEN <<"print(\"next\")">> ELSE <<>>)

EmptyInputs ==
    [fam : {"empty"}, tail : {"statement", "end"},
     header : {"function", "if", "elif", "else", "while", "for", "for-in", "try", "catch",
               "class"}]

\* Family "args": a call with two arguments.  The argument at position i is
\* t(i), which prints i and returns it, or boom(i), which prints i and fails.
\* The callee is the function f, a name that names nothing, the method m of
\* the instance o, or a method o does not have.
ArgsArgument(kind, i) ==
    (IF kind = "error" THEN "boom(" ELSE "t(") \o ToString(i) \o ")"

ArgsCallee(in) ==
    CASE in.callee = "method" -> "o.m"
      [] in.callee = "no method" -> "o.nom"
      [] OTHER -> "f"

ArgsCall(in) ==
    ArgsCallee(in) \o "(" \o ArgsArgument(in.first, 1) \o ", "
    \o ArgsArgument(in.second, 2) \o ")"

ArgsSource(in) ==
    <<"function t(v):", "    print(v)", "    return v",
      "function boom(v):", "    print(v)", "    q = 1 / 0",
      "class K:", "    function m(self, a, b):", "        print(\"m\")",
      "o = K()">>
    \o (IF in.callee = "function" THEN <<"function f(a, b):", "    print(\"f\")">> ELSE <<>>)
    \o <<(IF in.form = "assignment" THEN "x = " ELSE "") \o ArgsCall(in), "print(\"end\")">>

\* A method call is an expression only: parse_stmt has no statement for it.
ArgsInputs ==
    [fam : {"args"}, callee : {"function", "nothing", "method", "no method"},
     first : {"value", "error"}, second : {"value", "error"}, form : {"assignment"}]
    \cup [fam : {"args"}, callee : {"function", "nothing"},
          first : {"value", "error"}, second : {"value", "error"}, form : {"statement"}]

\* Family "dyn": the function g prints the variable name.  g is called from
\* the function f, from h called by f, or from the top level.  p is the
\* parameter of f and loc a local of f; t is bound at the top level only; s
\* is bound at the top level and in f; own is bound in g; nowhere is bound
\* nowhere.
DynSource(in) ==
    <<"t = 1", "s = 10",
      "function g():", "    own = 5", "    print(" \o in.name \o ")",
      "function h():", "    g()",
      "function f(p):", "    loc = 3", "    s = 20",
      "    " \o (IF in.from = "f, h" THEN "h()" ELSE "g()"),
      (IF in.from = "top" THEN "g()" ELSE "f(2)"),
      "print(\"end\")">>

DynInputs ==
    [fam : {"dyn"}, name : {"p", "loc", "t", "s", "own", "nowhere"},
     from : {"f", "f, h", "top"}]

\* Family "def": a function or class defined inside the body of the function
\* f or of the method m, used inside that body and again after the call.  The
\* name is new (inner, D) or the name of a definition of the caller (k, C).
DefName(in) ==
    CASE in.what = "function" -> IF in.name = "new" THEN "inner" ELSE "k"
      [] OTHER -> IF in.name = "new" THEN "D" ELSE "C"

DefUse(in, var) ==
    IF in.what = "function" THEN <<DefName(in) \o "()">>
    ELSE <<var \o " = " \o DefName(in) \o "()", "print(" \o var \o ".z)">>

DefBody(in) ==
    (IF in.what = "function"
     THEN <<"function " \o DefName(in) \o "():", "    print(\"inside\")">>
     ELSE <<"class " \o DefName(in) \o ":", "    z = 2">>)
    \o DefUse(in, "i")

DefSource(in) ==
    <<"function k():", "    print(\"outside\")", "class C:", "    z = 1">>
    \o (IF in.via = "function"
        THEN <<"function f():">> \o Indent(DefBody(in)) \o <<"f()">>
        ELSE <<"class M:", "    function m(self):">> \o Indent(Indent(DefBody(in)))
             \o <<"o = M()", "r = o.m()">>)
    \o DefUse(in, "a") \o <<"print(\"end\")">>

DefInputs ==
    [fam : {"def"}, what : {"function", "class"}, name : {"new", "caller's"},
     via : {"function", "method"}]

\* Family "undo": a try body defines a function or a class, writes a byte
\* of the memory or sets a register, and then fails or not.  What it changed
\* is probed in the catch body when it fails and after the try when not.
UndoChange(change) ==
    CASE change = "function new" -> <<"function inner():", "    print(\"inside\")">>
      [] change = "function again" -> <<"function k():", "    print(\"inside\")">>
      [] change = "class new" -> <<"class D:", "    z = 2">>
      [] change = "class again" -> <<"class C:", "    z = 2">>
      [] change = "memory" -> <<"mem_write(3, 9)">>
      [] change = "register" -> <<"set_reg(\"r\", 6)">>
      [] OTHER -> <<"set_reg(\"s\", 1)">>

UndoProbe(change) ==
    CASE change = "function new" -> <<"inner()">>
      [] change = "function again" -> <<"k()">>
      [] change = "class new" -> <<"a = D()", "print(a.z)">>
      [] change = "class again" -> <<"a = C()", "print(a.z)">>
      [] change = "memory" -> <<"print(mem_read(3))">>
      [] change = "register" -> <<"print(get_reg(\"r\"))">>
      [] OTHER -> <<"print(get_reg(\"s\"))">>

UndoSource(in) ==
    <<"function k():", "    print(\"outside\")", "class C:", "    z = 1",
      "mem_write(3, 7)", "set_reg(\"r\", 5)", "try:">>
    \o Indent(UndoChange(in.change))
    \o (IF in.fails THEN <<"    q = 1 / 0", "catch:">> \o Indent(UndoProbe(in.change))
        ELSE <<"catch:", "    print(\"caught\")">> \o UndoProbe(in.change))
    \o <<"print(\"end\")">>

UndoInputs ==
    [fam : {"undo"}, fails : BOOLEAN,
     change : {"function new", "function again", "class new", "class again", "memory",
               "register", "register new"}]

\* Family "stop": `return t(5)` at the top level, alone or nested in a
\* top-level if, while, for, for-in, try body or catch body; t prints E.
StopNest(nest) ==
    CASE nest = "if" -> <<"if 1 < 2:", "    return t(5)">>
      [] nest = "else" -> <<"if 2 < 1:", "    print(\"T\")", "else:", "    return t(5)">>
      [] nest = "while" -> <<"while 1 < 2:", "    return t(5)">>
      [] nest = "for" -> <<"for i = 1, 3 do", "    print(i)", "    return t(5)">>
      [] nest = "for-in" -> <<"for e in array(1, 2):", "    print(e)", "    return t(5)">>
      [] nest = "try" -> <<"try:", "    return t(5)", "catch:", "    print(\"c\")">>
      [] nest = "catch" -> <<"try:", "    q = 1 / 0", "catch:", "    return t(5)">>
      [] nest = "if in while" ->
           <<"while 1 < 2:", "    if 1 < 2:", "        return t(5)", "    print(\"W\")">>
      [] OTHER -> <<"return t(5)">>

StopSource(in) ==
    <<"function t(v):", "    print(\"E\")", "    return v", "print(\"A\")">>
    \o StopNest(in.nest) \o GoodLines(in.after) \o <<"print(\"B\")">>

StopInputs ==
    [fam : {"stop"}, after : 0..MaxLen,
     nest : {"none", "if", "else", "while", "for", "for-in", "try", "catch", "if in while"}]

\* Family "top": control statements at the top level of the script.
TopSource(in) ==
    CASE in.stmt = "while" -> <<"i = 0", "while i < 2:", "    i = i + 1", "print(i)">>
      [] in.stmt = "for" -> <<"for i = 1, 3 do", "    print(i)">>
      [] in.stmt = "if" -> <<"if 1 < 2:", "    print(\"T\")", "else:", "    print(\"E\")">>
      [] OTHER -> <<"print(\"A\")", "return 5", "print(\"B\")">>

TopInputs == [fam : {"top"}, stmt : {"while", "for", "if", "return"}]

Inputs ==
    TryInputs \cup ClassInputs \cup AliasInputs \cup RetInputs \cup ErrInputs \cup ScopeInputs
    \cup MethInputs \cup ResolveInputs \cup ForInInputs \cup TopInputs \cup MemInputs
    \cup ArithInputs \cup IndexInputs \cup StrInputs \cup AttrInputs \cup ArityInputs
    \cup BadInputs \cup GapInputs \cup ForInputs \cup EqInputs \cup LogicInputs
    \cup HeapInputs \cup LitInputs \cup DentInputs \cup EmptyInputs \cup ArgsInputs
    \cup DynInputs \cup DefInputs \cup UndoInputs \cup StopInputs

Source(in) ==
    CASE in.fam = "try" -> TrySource(in)
      [] in.fam = "alias" -> AliasSource(in)
      [] in.fam = "ret" -> RetSource(in)
      [] in.fam = "err" -> ErrSource(in)
      [] in.fam = "scope" -> ScopeSource(in)
      [] in.fam = "meth" -> MethSource(in)
      [] in.fam = "resolve" -> ResolveSource(in)
      [] in.fam = "forin" -> ForInSource(in)
      [] in.fam = "top" -> TopSource(in)
      [] in.fam = "mem" -> MemSource(in)
      [] in.fam = "arith" -> ArithSource(in)
      [] in.fam = "index" -> IndexSource(in)
      [] in.fam = "str" -> StrSource(in)
      [] in.fam = "attr" -> AttrSource(in)
      [] in.fam = "arity" -> AritySource(in)
      [] in.fam = "bad" -> BadSource(in)
      [] in.fam = "gap" -> GapSource(in)
      [] in.fam = "for" -> ForSource(in)
      [] in.fam = "eq" -> EqSource(in)
      [] in.fam = "logic" -> LogicSource(in)
      [] in.fam = "heap" -> HeapSource(in)
      [] in.fam = "lit" -> LitSource(in)
      [] in.fam = "dent" -> DentSource(in)
      [] in.fam = "empty" -> EmptySource(in)
      [] in.fam = "args" -> ArgsSource(in)
      [] in.fam = "dyn" -> DynSource(in)
      [] in.fam = "def" -> DefSource(in)
      [] in.fam = "undo" -> UndoSource(in)
      [] in.fam = "stop" -> StopSource(in)
      [] OTHER -> ClassSource(in)

(***************************************************************************)
(* main.rs: run_script.  The state is the script, the statement list once  *)
(* parsed, the evaluator state and the position of the top-level           *)
(* eval_block in the statement list.                                       *)
(***************************************************************************)
VARIABLES input, stmts, pc, st, status, error

vars == <<input, stmts, pc, st, status, error>>

\* `let mut env = env::Env::new(); builtins::install(&mut env);`
InitSt ==
    [env |-> install(new_env), arrays |-> <<>>, maps |-> <<>>, out |-> "",
     steps |-> 0, catches |-> <<>>, HEAP |-> EmptyMap, NEXT_PTR |-> 1]

Init ==
    /\ input \in Inputs
    /\ stmts = <<>>
    /\ pc = 1
    /\ st = InitSt
    /\ status = "parsing"
    /\ error = ""

\* `source.lines().map(|s| s.trim_end().to_string()).collect()`
source_lines(source) == [i \in DOMAIN source |-> trim_end(source[i])]

\* `let stmts = parser::parse(&lines)?;`
Parse ==
    /\ status = "parsing"
    /\ LET r == parse(source_lines(Source(input)))
       IN  /\ stmts' = IF r.k = "ok" THEN r.stmts ELSE stmts
           /\ status' = IF r.k = "ok" THEN "running" ELSE "error"
           /\ error' = IF r.k = "ok" THEN error ELSE r.msg
    /\ UNCHANGED <<input, pc, st>>

\* A run_script that takes a value returned at the top level for an error.
run_script_return_fails(r) ==
    CASE r.k = "none" -> "running"
      [] r.k \in {"some", "err"} -> "error"
      [] r.k = "panic" -> "panic"
      [] OTHER -> "fuel"

\* `eval::eval_block(&stmts, &mut env).await?; Ok(())`: what the result r of
\* a top-level statement makes of the run.
run_script_status(r) ==
    CASE r.k = "none" -> "running"
      [] r.k = "some" -> "ok"
      [] r.k = "err" -> "error"
      [] r.k = "panic" -> "panic"
      [] OTHER -> "fuel"

\* One turn of the loop of the top-level eval_block: the statement at pc is
\* evaluated; an error or a return ends run_script.
Exec(kind) ==
    /\ status = "running"
    /\ pc <= Len(stmts)
    /\ stmts[pc].k = kind
    /\ LET r == eval_stmt(stmts[pc], st)
       IN  /\ st' = r.st
           /\ pc' = IF r.k = "none" THEN pc + 1 ELSE pc
           /\ status' = run_script_status(r)
           /\ error' = IF r.k \in {"err", "panic"} THEN r.msg ELSE error
    /\ UNCHANGED <<input, stmts>>

ExecExpr == Exec("Expr")

ExecAssign == Exec("Assign")

ExecIf == Exec("If")

ExecWhile == Exec("While")

ExecFor == Exec("For")

ExecForIn == Exec("ForIn")

ExecReturn == Exec("Return")

ExecFunctionDef == Exec("FunctionDef")

ExecPrint == Exec("Print")

ExecTryCatch == Exec("TryCatch")

ExecClassDef == Exec("ClassDef")

\* The statement list is exhausted: eval_block returns Ok(None), run_script Ok(()).
Finish ==
    /\ status = "running"
    /\ pc > Len(stmts)
    /\ status' = "ok"
    /\ UNCHANGED <<input, stmts, pc, st, error>>

Next ==
    \/ Parse
    \/ ExecExpr
    \/ ExecAssign
    \/ ExecIf
    \/ ExecWhile
    \/ ExecFor
    \/ ExecForIn
    \/ ExecReturn
    \/ ExecFunctionDef
    \/ ExecPrint
    \/ ExecTryCatch
    \/ ExecClassDef
    \/ Finish

Spec == Init /\ [][Next]_vars

Done == status \in {"ok", "error", "panic", "fuel"}

TypeOK == status \in {"parsing", "running", "ok", "error", "panic", "fuel"}

(***************************************************************************)
(* Properties.                                                             *)
(***************************************************************************)
\* The text of the array a of the family "try" after the mutation mut.
TryArray(mut) ==
    CASE mut = "push" -> "[1, 2, 9]"
      [] mut = "pop" -> "[1]"
      [] mut = "set" -> "[9, 2]"
      [] OTHER -> "[1, 2]"

\* The value of x before the try statement of the family "try".
TryEntryX(in) == IF in.scope = "top" THEN "1" ELSE "5"

\* C1: when a statement of a try body raises an error, the catch body starts
\* with every variable of the current scope bound as it was immediately before
\* the try statement, and the names first assigned in the try body unbound:
\* every caught error starts its catch body in the bindings of try entry, and
\* the scripts of the family "try" print the entry value of x in the catch
\* body and fail on the read of y after it.
C1_CatchStartsInEntryScope ==
    /\ \A i \in DOMAIN st.catches : st.catches[i].catch = st.catches[i].entry
    /\ (input.fam = "try" /\ input.err # "none" /\ Done) =>
          /\ starts_with(st.out, TryEntryX(input) \o "\n")
          /\ status = "error"
          /\ error = "Variable 'y' not defined"

\* A caught error whose try body had rebound x and bound y, rolled back.
C1_Witness ==
    /\ input.fam = "try"
    /\ Done
    /\ st.catches # <<>>
    /\ st.catches[1].failed["x"] = Number(2)
    /\ st.catches[1].failed["x"] # st.catches[1].entry["x"]
    /\ "y" \in DOMAIN st.catches[1].failed
    /\ "y" \notin DOMAIN st.catches[1].catch

\* C2: the script of scenario 4 (a class P whose __init__ stores `self.n = n`
\* and whose get returns self.n; p = P(7); print(p.get())) parses, runs to
\* its end and prints 7.
C2_Scenario4Prints7 ==
    (input = [fam |-> "class", init |-> "field", get |-> "field"] /\ status # "parsing") =>
        /\ status # "error"
        /\ Done => (status = "ok" /\ st.out = "7\n")

\* C3: the rollback of a try/catch does not undo mutations of shared
\* referents: an array bound before the try and pushed to, popped from or
\* overwritten in the failing try body is read in the catch body, through the
\* same name, with the contents it had at the failure, and the scripts of the
\* family "try" print the mutated array in the catch body and after it.
C3_MutationsSurviveRollback ==
    /\ \A i \in DOMAIN st.catches : \A n \in DOMAIN st.catches[i].entry :
          st.catches[i].entry[n].t = "Array" =>
             /\ st.catches[i].catch[n] = st.catches[i].entry[n]
             /\ st.catches[i].catch_arrays[st.catches[i].entry[n].a]
                  = st.catches[i].failed_arrays[st.catches[i].entry[n].a]
    /\ (input.fam = "try" /\ input.err # "none" /\ Done) =>
          st.out = TryEntryX(input) \o "\n" \o TryArray(input.mut) \o "\n"
                   \o TryArray(input.mut) \o "\n"

\* A caught error after a push onto the array a: the array differs from what it
\* was at try entry.
C3_Witness ==
    /\ input.fam = "try"
    /\ input.mut = "push"
    /\ Done
    /\ st.catches # <<>>
    /\ st.catches[1].entry["a"].t = "Array"
    /\ st.catches[1].catch_arrays[st.catches[1].entry["a"].a] = <<Number(1), Number(2), Number(9)>>
    /\ st.catches[1].entry_arrays[st.catches[1].entry["a"].a] = <<Number(1), Number(2)>>

\* The elements of the array of the family "alias" after its operations.
RECURSIVE AliasElems(_, _)
AliasElems(elems, ops) ==
    IF ops = <<>> THEN elems
    ELSE AliasElems(CASE ops[1] = "push" -> Append(elems, 9)
                      [] ops[1] = "pop" -> SubSeq(elems, 1, Len(elems) - 1)
                      [] OTHER -> <<7>> \o Tail(elems),
                    Tail(ops))

\* "[e1, e2, ..]"
RECURSIVE Listed(_)
Listed(elems) ==
    IF elems = <<>> THEN ""
    ELSE IF Len(elems) = 1 THEN ToString(elems[1])
    ELSE ToString(elems[1]) \o ", " \o Listed(Tail(elems))

AliasOut(in) ==
    LET elems == AliasElems(<<1, 2, 3>>, in.ops)
        line == "[" \o Listed(elems) \o "]\n"
        n == ToString(Len(elems))
    IN  n \o " " \o n \o "\n" \o line \o line \o (IF in.via = "param" THEN line ELSE "")

\* C4: arrays are aliased, never copied, by assignment and by argument passing:
\* after `b = a`, or with a passed as the parameter b, every sequence of push,
\* pop and set made through either name leaves both names bound to one array,
\* and the script reads the same length and the same elements through a and
\* through b: the elements the operations leave when applied to one array.
C4_ArraysAreAliased ==
    (input.fam = "alias" /\ status # "parsing") =>
        /\ status # "error"
        /\ (get_var(st.env, "a") # None /\ get_var(st.env, "b") # None) =>
              /\ get_var(st.env, "b") = get_var(st.env, "a")
              /\ Len(st.arrays) = 1
        /\ Done => (status = "ok" /\ st.out = AliasOut(input))

\* A push through b and a set through a, both read back through both names.
C4_Witness ==
    /\ input = [fam |-> "alias", via |-> "assign", first |-> "b", ops |-> <<"push", "set">>]
    /\ status = "ok"
    /\ st.out = "4 4\n[7, 2, 3, 9]\n[7, 2, 3, 9]\n"


\* The output of a script of the family "ret": an I for each loop around the
\* return, then the value of the call.
RetLoopMark(w) == IF w \in {"while", "for", "forin"} THEN "I\n" ELSE ""

RetOut(in) == RetLoopMark(in.outer) \o RetLoopMark(in.inner) \o "8\n"

\* C5: a `return E` executed at any nesting depth of if/elif/else, while,
\* numeric for, for-in, try bodies and catch bodies inside a function makes the
\* function call evaluate to the value of E, and no later statement and no
\* further loop iteration of the function runs: f(7) is 8, each loop around the
\* return has started one iteration and no statement after the return has run.
C5_ReturnEndsTheFunction ==
    (input.fam = "ret" /\ status # "parsing") =>
        /\ status # "error"
        /\ Done => /\ status = "ok"
                   /\ st.out = RetOut(input)
                   /\ get_var(st.env, "r") = Some(Number(8))

\* A return in a catch body inside a while loop.
C5_Witness ==
    /\ input = [fam |-> "ret", outer |-> "while", inner |-> "catch"]
    /\ status = "ok"
    /\ st.out = "I\n8\n"
    /\ get_var(st.env, "r") = Some(Number(8))


\* The marks a script of the family "err" prints, one on each line.
RECURSIVE Marks(_)
Marks(ms) == IF ms = <<>> THEN "" ELSE Head(ms) \o "\n" \o Marks(Tail(ms))

ErrOut(in) ==
    CASE in.shape = "none" -> Marks(<<"A", "F">>)
      [] in.shape = "flat" -> Marks(<<"A", "F", "C", "N">>)
      [] in.shape = "nested" -> Marks(<<"A", "F", "C", "N", "E">>)
      [] in.shape = "callee" -> Marks(<<"A", "F", "C", "N", "M", "E">>)
      [] in.shape = "incatch" -> Marks(<<"A", "F", "C", "F", "O", "E">>)
      [] OTHER -> Marks(<<"A", "T", "F", "O", "E">>)

\* The number of catch bodies a script of the family "err" runs.
ErrCatches(in) ==
    CASE in.shape = "none" -> 0
      [] in.shape = "incatch" -> 2
      [] OTHER -> 1

\* C6: an error raised at any call depth inside a try body, inside user
\* functions and methods called from it included, is handled by the innermost
\* dynamically enclosing try/catch only: the statements between the failure
\* and that try are skipped (no S), that catch body runs once, execution goes
\* on after that try/catch (N, M, E), no outer catch body runs (no O unless
\* the inner catch body fails itself or had ended before the failure), and
\* with no enclosing try/catch the error ends the program.
C6_InnermostCatchOnly ==
    (input.fam = "err" /\ Done) =>
        /\ st.out = ErrOut(input)
        /\ Len(st.catches) = ErrCatches(input)
        /\ IF input.shape = "none"
           THEN status = "error" /\ error = "Division by zero"
           ELSE status = "ok"

\* An error two calls below a method call, caught by the try of the function
\* h and not by the try around the call of h.
C6_Witness ==
    /\ input = [fam |-> "err", shape |-> "callee", depth |-> MaxCalls, via |-> "method"]
    /\ status = "ok"
    /\ st.out = "A\nF\nC\nN\nM\nE\n"
    /\ Len(st.catches) = 1


\* C7: an assignment executed inside a function or method body never changes
\* the caller's variable bindings: whatever the callee binds (a name of the
\* caller, a new name or its parameter, by an assignment or as a loop
\* variable), the caller's x and y stay 1 and 5 and the names the callee
\* introduced (w, p, q) are unbound in the caller after the call.
C7_CalleeAssignmentsStayLocal ==
    (input.fam = "scope" /\ status # "parsing") =>
        /\ get_var(st.env, "x") \in {None, Some(Number(1))}
        /\ get_var(st.env, "y") \in {None, Some(Number(5))}
        /\ \A n \in {"w", "p", "q"} : get_var(st.env, n) = None
        /\ Done => /\ st.out = "2\n1 5\n"
                   /\ status = "error"
                   /\ error = "Variable 'w' not defined"

\* A method that assigned 2 to its own x, printed it and returned to a caller
\* whose x is 1.
C7_Witness ==
    /\ input = [fam |-> "scope", call |-> "method", how |-> "assign", target |-> "x"]
    /\ Done
    /\ st.out = "2\n1 5\n"
    /\ get_var(st.env, "x") = Some(Number(1))
    /\ get_var(st.env, "r") = Some(Number(0))


\* "10 20 .. 10n" and a line end, as print writes the parameters a1 .. an.
RECURSIVE TensPrinted(_)
TensPrinted(n) ==
    IF n = 1 THEN "10" ELSE TensPrinted(n - 1) \o " " \o ToString(10 * n)

MethOut(in) ==
    "B\ntrue\n"
    \o (IF in.args >= 1 THEN TensPrinted(in.args) \o "\n" ELSE "")
    \o ToString(10 * in.args) \o "\n1\n"

\* C8: evaluating recv.m(a1..ak) runs the method m of recv's class in a fresh
\* child scope with the first parameter bound to recv itself (the parameter
\* equals k, and instances are equal only when they are one instance) and the
\* other parameters bound to a1..ak in order; the call is an error, and the
\* body does not run (no B is printed), unless m declares exactly k+1
\* parameters.  The x the body binds is not the caller's x.
C8_MethodCallBindsReceiver ==
    (input.fam = "meth" /\ Done) =>
        IF input.decl = input.args + 1
        THEN /\ status = "ok"
             /\ st.out = MethOut(input)
             /\ get_var(st.env, "r") = Some(Number(10 * input.args))
        ELSE /\ status = "error"
             /\ error = "Method 'm' expects " \o ToString(input.decl) \o " arguments, got "
                        \o ToString(input.args + 1)
             /\ st.out = ""

\* A method of three parameters called with two arguments, run to its end.
C8_Witness ==
    /\ input = [fam |-> "meth", decl |-> 3, args |-> 2]
    /\ status = "ok"
    /\ st.out = "B\ntrue\n10 20\n20\n1\n"


\* What the call of a script of the family "resolve" is resolved to.
ResolveKind(in) ==
    IF in.defs \in {"class", "class, func", "func, class"} THEN "class"
    ELSE IF in.name = "length" THEN "builtin"
    ELSE IF in.defs = "func" THEN "func"
    ELSE "none"

\* C9: for a bare call f(args), a class named f takes precedence over a
\* builtin named f and a builtin over a user function (a user function that
\* has the name of a builtin is never invoked, no U is printed); when no
\* class, builtin or user function named f is visible the call is an error.
C9_CallResolutionOrder ==
    (input.fam = "resolve" /\ Done) =>
        CASE ResolveKind(input) = "class" ->
               status = "ok" /\ st.out = "K\n<instance of " \o input.name \o ">\n"
          [] ResolveKind(input) = "builtin" -> status = "ok" /\ st.out = "2\n"
          [] ResolveKind(input) = "func" -> status = "ok" /\ st.out = "U\n100\n"
          [] OTHER -> /\ status = "error"
                      /\ error = "Unknown function or class '" \o input.name \o "'"
                      /\ st.out = ""

\* A class and a user function both named after the builtin length: the call
\* builds an instance.
C9_Witness ==
    /\ input = [fam |-> "resolve", name |-> "length", where |-> "top", defs |-> "func, class"]
    /\ status = "ok"
    /\ st.out = "K\n<instance of length>\n"


\* "1\n2\n..n\n": what the body of the loop of the family "forin" prints.
RECURSIVE Counted(_)
Counted(n) == IF n = 0 THEN "" ELSE Counted(n - 1) \o ToString(n) \o "\n"

\* The elements of the array a after the loop of the family "forin".
ForInFinal(in) ==
    CASE in.mut = "push" -> [i \in 1..(2 * in.n) |-> IF i <= in.n THEN i ELSE i - in.n + 10]
      [] in.mut = "pop" -> <<>>
      [] in.mut = "set" -> [i \in 1..in.n |-> IF i = in.n THEN 0 ELSE i]
      [] in.mut = "rebind" -> <<>>
      [] OTHER -> [i \in 1..in.n |-> i]

\* C10: a for-in loop over an array holding n elements at loop entry runs its
\* body exactly n times, binding the loop variable to the entry-time elements
\* in order, even when the body pushes to, pops from or overwrites elements of
\* that same array; a body that pushes on every iteration still terminates.
\* The script prints 1 .. n, one on each line, then the array the mutations
\* left, and ends without an error and within the step bound.
C10_ForInWalksEntrySnapshot ==
    (input.fam = "forin" /\ Done) =>
        /\ status = "ok"
        /\ st.out = Counted(input.n) \o "[" \o Listed(ForInFinal(input)) \o "]\n"

\* A loop over three elements whose body pushed three times.
C10_Witness ==
    /\ input = [fam |-> "forin", n |-> 3, mut |-> "push"]
    /\ status = "ok"
    /\ st.out = "1\n2\n3\n[1, 2, 3, 11, 12, 13]\n"


\* C11: mem_write and set_reg executed inside a function or method body act
\* on that call's own copy of the byte memory and registers: the callee
\* starts from the caller's values as of call time (it prints 7 0 5, then
\* 9 1 6 after its writes), and after the call returns the caller's byte
\* memory and registers are what they were before the call (7 0 5 again, and
\* the register s of the callee is not defined).
C11_CalleeMemoryIsACopy ==
    (input.fam = "mem" /\ status # "parsing") =>
        /\ pc > 2 => /\ st.env.memory = Put(EmptyMap, 3, 7)
                     /\ st.env.registers = Put(EmptyMap, "r", 5)
        /\ Done => /\ st.out = "7 0 5\n9 1 6\n"
                              \o (IF input.call = "nested" THEN "7 0 5\n" ELSE "")
                              \o "7 0 5\n"
                   /\ status = "error"
                   /\ error = "Register 's' not defined"

\* A method wrote byte 3 and register r and returned; the caller reads its own.
C11_Witness ==
    /\ input = [fam |-> "mem", call |-> "method"]
    /\ Done
    /\ st.out = "7 0 5\n9 1 6\n7 0 5\n"
    /\ mem_read(st.env, 3) = Some(7)
    /\ get_reg(st.env, "r") = Some(5)


\* C12: evaluating `a / b` or `a % b` on two Numbers with b equal to 0
\* produces an error (catchable by try/catch), never a value: at the top
\* level the script ends with an error and prints nothing, inside a try the
\* catch body runs and the print of z does not.
C12_ZeroDivisorIsAnError ==
    (input.fam = "arith" /\ input.b = "0" /\ Done) =>
        IF input.guard = "try"
        THEN status = "ok" /\ st.out = "C\n"
        ELSE status = "error" /\ st.out = ""


\* The number the index text of the family "index" stands for.
IndexNumber(i) ==
    CASE i = "-1" -> -1
      [] i = "0 - 2" -> -2
      [] i = "1" -> 1
      [] i = "3" -> 3
      [] OTHER -> 4

\* The index is outside 0..length-1; for a slice, the bound is negative or
\* larger than the length.
IndexOutside(in) ==
    IF in.access \in {"slice from", "slice to"}
    THEN IndexNumber(in.i) < 0 \/ IndexNumber(in.i) > 3
    ELSE IndexNumber(in.i) < 0 \/ IndexNumber(in.i) > 2

\* C13: every array or string access with an index outside 0..length-1, in
\* particular every negative index, through `a[i]`, get or set, and every
\* slice with a negative or too-large bound, is an error: no element is
\* returned and the array is unchanged (the catch body prints C and the
\* array still prints as [1, 2, 3]).
C13_OutsideIndexIsAnError ==
    (input.fam = "index" /\ IndexOutside(input) /\ Done) =>
        /\ status = "ok"
        /\ st.out = "C\n[1, 2, 3]\n"


\* C14: for every string s, strings with multi-byte characters included, and
\* every numeric index i, evaluating s[i] either returns a single-character
\* string or returns an error value; it never aborts (panics) the interpreter:
\* the script prints one character or the C of its catch body.
C14_StringIndexNeverPanics ==
    (input.fam = "str" /\ Done) =>
        /\ status = "ok"
        /\ \/ st.out = "C\n"
           \/ Len(st.out) = 2 /\ SubSeq(st.out, 2, 2) = "\n"


\* What the lookup of x on the instance o of the family "attr" finds: "S" for
\* the static field of B, "M" for the method of B, "" for nothing.
AttrFound(in) == IF in.static THEN "S" ELSE IF in.method THEN "M" ELSE ""

\* C15: attribute lookup of the name x on an instance returns the instance
\* field x if present, else the static field x of its class, else the method
\* x of its class; a field or method defined only on the parent of the class
\* is not found.  For the instance o of B: o.x reads the static field of B
\* before the method of B and never a member of A, o.x() calls the method of
\* B only when B has no static field x, and a value stored as the field x of
\* o itself (Value::set_attr) would be found before both.
C15_AttributeLookupOrder ==
    (input.fam = "attr" /\ status # "parsing") =>
        /\ get_var(st.env, "o") # None =>
              LET o == get_var(st.env, "o")[1]
                  found == get_attr(o, "x", st)
                  stored == set_attr(o, "x", String("I"), st)
              IN  /\ o.class.name = "B"
                  /\ o.class.parent # None
                  /\ CASE AttrFound(input) = "S" -> found = Some(String("S"))
                       [] AttrFound(input) = "M" -> found # None /\ found[1].t = "Method"
                       [] OTHER -> found = None
                  /\ get_attr(o, "x", stored.st) = Some(String("I"))
        /\ Done =>
              CASE AttrFound(input) = "S" /\ input.use = "get" ->
                     status = "ok" /\ st.out = "S\n"
                [] AttrFound(input) = "S" /\ input.use = "call" ->
                     status = "error" /\ error = "Not a method"
                [] AttrFound(input) = "M" /\ input.use = "get" ->
                     status = "ok" /\ st.out = "<method>\n"
                [] AttrFound(input) = "M" /\ input.use = "call" ->
                     status = "ok" /\ st.out = "M\n"
                [] AttrFound(input) = "" /\ input.use = "get" ->
                     status = "error" /\ error = "Attribute 'x' not found"
                [] OTHER -> status = "error" /\ error = "Method 'x' not found"

\* A call of o.x() where only A, the parent of the class of o, has a method
\* x: the method is not found.
C15_Witness ==
    /\ input = [fam |-> "attr", static |-> FALSE, method |-> FALSE, pstatic |-> FALSE,
                pmethod |-> TRUE, use |-> "call"]
    /\ status = "error"
    /\ error = "Method 'x' not found"
    /\ get_var(st.env, "o") # None
    /\ "x" \in DOMAIN get_var(st.env, "o")[1].class.parent[1].methods


\* C16: calling a user function with a number of arguments different from its
\* number of parameters is an error and the body does not run (no B is
\* printed); with matching counts the call evaluates to the returned value,
\* or to Null when the body finishes without executing a return.
C16_FunctionCallArity ==
    (input.fam = "arity" /\ Done) =>
        IF input.decl # input.args
        THEN /\ status = "error"
             /\ error = "Function 'f' expects " \o ToString(input.decl) \o " arguments, got "
                        \o ToString(input.args)
             /\ st.out = ""
        ELSE /\ status = "ok"
             /\ get_var(st.env, "r")
                  = Some(IF input.ret = "value" THEN Number(10 * input.args) ELSE Null)
             /\ st.out = "B\n" \o (IF input.ret = "value" THEN ToString(10 * input.args)
                                   ELSE "null") \o "\n"

\* A function of two parameters called with two arguments whose body ends
\* without a return: the call is Null.
C16_Witness ==
    /\ input = [fam |-> "arity", decl |-> 2, args |-> 2, ret |-> "none"]
    /\ status = "ok"
    /\ get_var(st.env, "r") = Some(Null)
    /\ st.out = "B\nnull\n"


\* The text s has the text t in it.
Contains(s, t) ==
    \E i \in 1..(Len(s) - Len(t) + 1) : SubSeq(s, i, i + Len(t) - 1) = t

\* C17: every error returned by the parser carries the 1-based number of the
\* offending source line, a try without a following catch and errors inside
\* an expression (unbalanced parenthesis, unexpected token, trailing tokens)
\* included: the message of a rejected script of the family "bad" has in it
\* the number of one of the lines of the rejected construct (or of the line
\* after it).
C17_ParseErrorsCarryTheLine ==
    (input.fam = "bad" /\ status = "error") =>
        \E n \in (input.after + 1)..(input.after + Len(BadLines(input.what)) + 1) :
            Contains(error, ToString(n))


\* C18: an empty line or a full-line comment put between two lines of a
\* program does not change the parse result, between an if, elif, else, try
\* or catch header and the first line of its body included: a script of the
\* family "gap" parses to the statements of the program without the new line.
C18_BlankLinesDoNotMatter ==
    (input.fam = "gap" /\ status # "parsing") =>
        /\ parse(source_lines(GapLines(input.what))).k = "ok"
        /\ status # "error"
        /\ stmts = parse(source_lines(GapLines(input.what))).stmts


\* "lo\n..hi\n": what the body of the loop of the family "for" prints.
RECURSIVE FromTo(_, _)
FromTo(lo, hi) == IF lo > hi THEN "" ELSE FromTo(lo, hi - 1) \o ToString(hi) \o "\n"

ForTimes(in) == IF in.hi - in.lo + 1 > 0 THEN in.hi - in.lo + 1 ELSE 0

\* C19: a numeric for evaluates both bound expressions once, before the first
\* iteration, and runs its body exactly max(0, high - low + 1) times with the
\* loop variable set to low, low+1, ..., high in order, whatever the body
\* assigns to the loop variable or to the variables of the bounds; it always
\* terminates and runs zero times when low > high.  The script of the family
\* "for" prints "b" once for each bound that is a call, then lo .. hi, one on
\* each line, then the number of iterations, and ends without an error and
\* within the step bound.
C19_NumericForRunsLowToHigh ==
    (input.fam = "for" /\ Done) =>
        /\ status = "ok"
        /\ st.out = (IF input.bounds = "calls" THEN "b\nb\n" ELSE "")
                    \o FromTo(input.lo, input.hi) \o ToString(ForTimes(input)) \o "\n"

C19_Witness ==
    /\ input = [fam |-> "for", lo |-> 1, hi |-> MaxLen, bounds |-> "calls", mut |-> "high"]
    /\ status = "ok"
    /\ st.out = "b\nb\n" \o FromTo(1, MaxLen) \o ToString(MaxLen) \o "\n"


\* What an operand of the family "eq" is: its variant, and its value or the
\* object it names.
EqVariant(operand) ==
    CASE operand \in {"1", "2", "w"} -> "Number"
      [] operand \in {"\"x\"", "\"y\"", "s"} -> "String"
      [] operand \in {"true", "false"} -> "Boolean"
      [] operand \in {"a", "b", "c"} -> "Array"
      [] operand \in {"p", "q", "r"} -> "Instance"
      [] OTHER -> "Null"

EqReferent(operand) ==
    CASE operand = "s" -> "\"x\""
      [] operand = "c" -> "a"
      [] operand = "r" -> "p"
      [] OTHER -> operand

\* A NaN is a number equal to no number, itself included.
EqExpected(in) ==
    /\ EqVariant(in.left) = EqVariant(in.right)
    /\ EqReferent(in.left) = EqReferent(in.right)
    /\ in.left # "w"

EqShown(b) == IF b THEN "true" ELSE "false"

\* The class values the state holds: the defined classes and the classes of
\* the instances bound to p and q.
EqClasses ==
    {st.env.classes[n] : n \in DOMAIN st.env.classes}
    \cup {st.env.vars[n].class : n \in DOMAIN st.env.vars \cap {"p", "q"}}

\* C20: == compares numbers, strings and booleans by value, arrays and
\* instances by identity (two arrays built apart with equal elements are
\* unequal, two names of one array are equal), classes by name, Null equal to
\* Null; operands of different variants are unequal and no error is raised;
\* != is always the negation of ==.  The script of the family "eq" prints the
\* expected truth value of == and its negation for !=, and two class values
\* are equal exactly when their names are.
C20_EqualityRules ==
    (input.fam = "eq") =>
        /\ status # "error"
        /\ status = "ok" =>
             st.out = EqShown(EqExpected(input)) \o " " \o EqShown(~EqExpected(input)) \o "\n"
        /\ \A x, y \in EqClasses : ValueEq(x, y) = (x.name = y.name)

C20_Witness ==
    /\ input = [fam |-> "eq", left |-> "a", right |-> "b"]
    /\ status = "ok"
    /\ st.out = "false true\n"
    /\ st.arrays[st.env.vars["a"].a] = st.arrays[st.env.vars["b"].a]
    /\ st.env.vars["c"] = st.env.vars["a"]
    /\ st.env.vars["p"].class # st.env.classes["K"]
    /\ ValueEq(st.env.vars["p"].class, st.env.classes["K"])


\* The truthiness of an operand of the family "logic".
LogicTruthy(operand) == operand \in {"true", "1", "\"x\"", "array(1)"}

LogicExpected(in) ==
    IF in.op = "and" THEN LogicTruthy(in.left) /\ LogicTruthy(in.right)
    ELSE LogicTruthy(in.left) \/ LogicTruthy(in.right)

\* C21: `a and b` and `a or b` always evaluate both operands, left then
\* right, the side effects and errors of the right operand occurring even
\* when the left operand decides the result, and the result is a Boolean, the
\* conjunction (disjunction) of the truthiness of the operands, never one of
\* the operand values.  The script of the family "logic" prints l, then r,
\* then true or false; with a right operand that is an unbound variable it
\* prints l and ends with the error of that variable.
C21_AndOrEvaluateBoth ==
    (input.fam = "logic" /\ Done) =>
        IF input.right = "nope"
        THEN status = "error" /\ error = "Variable 'nope' not defined" /\ st.out = "l\n"
        ELSE status = "ok" /\ st.out = "l\nr\n" \o EqShown(LogicExpected(input)) \o "\n"

C21_Witness ==
    /\ input = [fam |-> "logic", op |-> "or", left |-> "\"x\"", right |-> "array()"]
    /\ status = "ok"
    /\ st.out = "l\nr\ntrue\n"


\* The handles of h1, h2, h3 in the family "heap": the failed try takes one.
HeapHandle(in, n) == IF in.first = "failed try" /\ n > 1 THEN n + 1 ELSE n

\* The blocks of the family "heap" freed before the last statement.
HeapFreed(in) ==
    (IF in.first = "free" \/ in.second = "free h1" THEN {1} ELSE {})
    \cup (IF in.second = "free h2" THEN {2} ELSE {})

HeapByte(in) == IF in.first = "poke" /\ in.target = 1 THEN "7" ELSE "0"

\* C22: across the malloc, free, poke, peek and peek32 calls of one run every
\* malloc returns a handle strictly greater than every handle returned
\* before, so no handle is returned twice, even after it was freed; after
\* free(h) every poke, peek and peek32 on h is an error.  The script of the
\* family "heap" prints strictly increasing handles (a handle allocated in a
\* try body that failed is not handed out again), and the access to a freed
\* block is the error "Invalid pointer", which the catch body reports.
C22_HandlesNeverReused ==
    (input.fam = "heap" /\ Done) =>
        /\ status = "ok"
        /\ st.out = "1\n" \o (IF input.first = "failed try" THEN "2\nc\n" ELSE "")
                    \o ToString(HeapHandle(input, 2)) \o "\n"
                    \o ToString(HeapHandle(input, 3)) \o "\n"
                    \o (IF input.target \in HeapFreed(input) THEN "invalid"
                        ELSE IF input.use = "poke" THEN "p" ELSE HeapByte(input)) \o "\n"
        /\ \A p \in DOMAIN st.HEAP : p < st.NEXT_PTR
        /\ \A n \in HeapFreed(input) : HeapHandle(input, n) \notin DOMAIN st.HEAP

C22_Witness ==
    /\ input = [fam |-> "heap", first |-> "free", second |-> "free h2", use |-> "peek32",
                target |-> 1]
    /\ status = "ok"
    /\ st.out = "1\n2\n3\ninvalid\n"
    /\ DOMAIN st.HEAP = {3}


\* The string a literal of the family "lit" denotes: each escape sequence
\* decoded once.
LitValue(body) ==
    CASE body = "a\\nb" -> "a\nb"
      [] body = "a\\tb" -> "a\tb"
      [] body = "a\\\\nb" -> "a\\nb"
      [] body = "a\\\\b" -> "a\\b"
      [] body = "a\\\"b" -> "a\"b"
      [] body = "a\\qb" -> "aqb"
      [] OTHER -> body

\* C23: a string literal denotes the same string wherever it appears, each
\* escape sequence decoded exactly once: as an argument of a print or call
\* statement it yields the string it yields on the right-hand side of an
\* assignment (backslash backslash n is a backslash and an n; backslash quote
\* is a quote that does not end the literal).  The script of the family "lit"
\* prints the string the literal denotes and ends without an error.
C23_LiteralDecodedOnce ==
    (input.fam = "lit" /\ Done) =>
        /\ status = "ok"
        /\ st.out = LitValue(input.body) \o "\n"


\* C24: the body of a block-opening statement has one statement for every
\* line of the run of following lines indented deeper than the opener, in
\* source order, also when a later line of the run is indented less deeply
\* than the first body line: the script of the family "dent" runs the three
\* lines of the body and prints first, second, end.
C24_BodyKeepsEveryLine ==
    (input.fam = "dent" /\ Done) =>
        /\ status = "ok"
        /\ st.out = "first\nsecond\nend\n"


\* C25: parsing fails whenever a block-opening header (function, if, elif,
\* else, while, numeric for, for-in, try, catch, class) is not followed by at
\* least one more deeply indented body line: every script of the family
\* "empty" is rejected by the parser, so no statement of it runs.
C25_EmptyBodyIsRejected ==
    (input.fam = "empty" /\ status # "parsing") =>
        /\ status = "error"
        /\ stmts = <<>>
        /\ st.out = ""


\* What the arguments of the call of the family "args" print.
ArgsPrinted(in) == IF in.first = "error" THEN "1\n" ELSE "1\n2\n"

ArgsFail(in) == in.first = "error" \/ in.second = "error"

\* C26: in a call f(e1..en) or recv.m(e1..en) the arguments are evaluated
\* left to right before the callee is resolved or invoked: their side effects
\* happen even when f names nothing, and an error in ei prevents the
\* evaluation of every later argument and the invocation of the callee.  The
\* script of the family "args" prints 1 and 2 in this order, stops after the
\* argument that fails with the error of that argument, and otherwise goes
\* on to the callee or to the error of the missing callee.
C26_ArgumentsBeforeCallee ==
    (input.fam = "args" /\ Done) =>
        CASE ArgsFail(input) ->
               /\ status = "error"
               /\ error = "Division by zero"
               /\ st.out = ArgsPrinted(input)
          [] ~ArgsFail(input) /\ input.callee = "nothing" ->
               /\ status = "error"
               /\ error = "Unknown function or class 'f'"
               /\ st.out = "1\n2\n"
          [] ~ArgsFail(input) /\ input.callee = "no method" ->
               /\ status = "error"
               /\ error = "Method 'nom' not found"
               /\ st.out = "1\n2\n"
          [] ~ArgsFail(input) /\ input.callee = "method" ->
               status = "ok" /\ st.out = "1\n2\nm\nend\n"
          [] OTHER -> status = "ok" /\ st.out = "1\n2\nf\nend\n"

C26_Witness ==
    /\ input = [fam |-> "args", callee |-> "nothing", first |-> "value",
                second |-> "value", form |-> "assignment"]
    /\ status = "error"
    /\ error = "Unknown function or class 'f'"
    /\ st.out = "1\n2\n"


\* What g prints in the family "dyn"; "" when the name is bound nowhere on
\* the chain of calls.
DynValue(in) ==
    CASE in.name = "own" -> "5"
      [] in.name = "t" -> "1"
      [] in.name = "s" -> IF in.from = "top" THEN "10" ELSE "20"
      [] in.name = "p" /\ in.from # "top" -> "2"
      [] in.name = "loc" /\ in.from # "top" -> "3"
      [] OTHER -> ""

\* C27: a variable read inside a function body resolves through the chain of
\* calls, not the place of the definition: a name not bound in the callee
\* resolves to the binding its caller holds at the time of the call, then the
\* caller's caller, up to the top level (g called from f reads the parameters
\* and locals of f); a name bound nowhere on the chain is an error.  The
\* script of the family "dyn" prints the binding nearest on the chain, or ends
\* with the error of the undefined variable.
C27_ReadsFollowTheCallChain ==
    (input.fam = "dyn" /\ Done) =>
        IF DynValue(input) = ""
        THEN /\ status = "error"
             /\ error = "Variable '" \o input.name \o "' not defined"
             /\ st.out = ""
        ELSE status = "ok" /\ st.out = DynValue(input) \o "\nend\n"

C27_Witness ==
    /\ input = [fam |-> "dyn", name |-> "p", from |-> "f, h"]
    /\ status = "ok"
    /\ st.out = "2\nend\n"


\* What the use inside the call prints in the family "def".
DefInside(in) == IF in.what = "function" THEN "inside\n" ELSE "2\n"

\* C28: function and class definitions executed inside a function or method
\* body exist only in the scope of that call: after the call returns, a name
\* defined only there cannot be called from the caller (the call is an
\* error), and a definition that defined a name of the caller again leaves
\* the definition of the caller in effect.  The script of the family "def"
\* uses the definition inside the call; after the call a new name is unknown
\* and a name of the caller is the function or class the caller defined.
C28_DefinitionsStayInTheCall ==
    (input.fam = "def" /\ Done) =>
        IF input.name = "new"
        THEN /\ status = "error"
             /\ error = "Unknown function or class '" \o DefName(input) \o "'"
             /\ st.out = DefInside(input)
        ELSE /\ status = "ok"
             /\ st.out = DefInside(input)
                         \o (IF input.what = "function" THEN "outside" ELSE "1") \o "\nend\n"

C28_Witness ==
    /\ input = [fam |-> "def", what |-> "class", name |-> "caller's", via |-> "method"]
    /\ status = "ok"
    /\ st.out = "2\n1\nend\n"


\* What the probe of the family "undo" prints before and after the change;
\* "" when the probe is an error.
UndoBefore(change) ==
    CASE change = "function again" -> "outside"
      [] change = "class again" -> "1"
      [] change = "memory" -> "7"
      [] change = "register" -> "5"
      [] OTHER -> ""

UndoAfter(change) ==
    CASE change \in {"function new", "function again"} -> "inside"
      [] change \in {"class new", "class again"} -> "2"
      [] change = "memory" -> "9"
      [] change = "register" -> "6"
      [] OTHER -> "1"

UndoError(change) ==
    CASE change = "function new" -> "Unknown function or class 'inner'"
      [] change = "class new" -> "Unknown function or class 'D'"
      [] OTHER -> "Register 's' not defined"

\* C29: when a try body raises an error, the rollback restores the whole
\* environment of try entry, not only the variables: the functions and
\* classes defined, the builtin aliases registered, the bytes written with
\* mem_write and the registers set with set_reg in the try body before the
\* error are undone when the catch body starts.  In the family "undo" the
\* catch body finds what was there at try entry (a name defined in the try
\* body is unknown again), while after a try body that did not fail the
\* change is there; and a builtin added after try entry is gone from what
\* the rollback leaves.
C29_RollbackRestoresEverything ==
    /\ (input.fam = "undo" /\ Done /\ input.fails) =>
          IF UndoBefore(input.change) = ""
          THEN status = "error" /\ error = UndoError(input.change) /\ st.out = ""
          ELSE status = "ok" /\ st.out = UndoBefore(input.change) \o "\nend\n"
    /\ (input.fam = "undo" /\ Done /\ ~input.fails) =>
          status = "ok" /\ st.out = UndoAfter(input.change) \o "\nend\n"
    /\ input.fam = "undo" =>
          /\ "alias" \notin DOMAIN st.env.builtins
          /\ restore_env(st.env, [st EXCEPT !.env = add_builtin(@, "alias", "array")]).env
             = st.env

C29_Witness ==
    /\ input = [fam |-> "undo", fails |-> TRUE, change |-> "memory"]
    /\ status = "ok"
    /\ st.out = "7\nend\n"
    /\ Len(st.catches) = 1


\* What a script of the family "stop" prints before the return.
StopBefore(nest) ==
    CASE nest \in {"for", "for-in"} -> "A\n1\n"
      [] OTHER -> "A\n"

\* C30: a `return E` executed at the top level, outside every function (also
\* nested in a top-level if, loop or try/catch), stops the program: E is
\* evaluated, no later top-level statement runs, and the run ends without an
\* error.  The script of the family "stop" prints what comes before the
\* return and the E of the evaluation of the returned expression, and ends
\* successfully at the statement that returned, with the statements after it
\* not run.
C30_TopLevelReturnStops ==
    (input.fam = "stop" /\ Done) =>
        /\ status = "ok"
        /\ error = ""
        /\ st.out = StopBefore(input.nest) \o "E\n"
        /\ pc = 3
        /\ Len(stmts) = 4 + input.after
        /\ \A n \in 1..input.after : get_var(st.env, "g" \o ToString(n)) = None

C30_Witness ==
    /\ input = [fam |-> "stop", after |-> MaxLen, nest |-> "if in while"]
    /\ status = "ok"
    /\ st.out = "A\nE\n"
    /\ pc = 3
    /\ Len(stmts) = 4 + MaxLen

====
